---------------------------- MODULE Spec2Model ----------------------------
(***************************************************************************)
(* A model of jts_telegraf: the processors filtering, rate, jitter,        *)
(* monitoring, xmetrictags, xreducer, sum and enrichment, and of the input *)
(* plugins gnmi and netconf_junos the redial loop, the scheduling loop and *)
(* the reply parsing of netconf_junos, and the path parsing, the receive   *)
(* loop and the response handling of gnmi.  Every processor is             *)
(* an object with an Apply(batch) method; one action models one call of    *)
(* Apply.  Each component has its own specification (SpecFiltering, ...)   *)
(* over its own variables; the variables of the other components stay at   *)
(* their initial value.  Where goroutines run side by side (two instances  *)
(* of enrichment, the workers of an input plugin) an action is one step    *)
(* of one goroutine.                                                       *)
(*                                                                         *)
(* A measurement (telegraf.Metric) is a record                             *)
(*   [name, tags, fields, tm]                                              *)
(* whose tags and fields are functions from the keys present to values.    *)
(* A field value is a record [k, num, den, s]: k is the Go type of the     *)
(* value, num/den an exact rational for the numeric types (the code's      *)
(* float64 arithmetic is kept exact), s the text of a string.              *)
(***************************************************************************)
EXTENDS Integers, Sequences, FiniteSets, TLC

VARIABLES
  plugin,         \* the processor this pipeline is configured with
  now,            \* time.Now() as the last call of Apply read it
  f_Tags,         \* Filtering.Tags
  f_Fields,       \* Filtering.Fields
  f_regexCache,   \* Filtering.regexCache: the patterns compiled so far
  f_in,           \* the batch given to the first Filtering.Apply
  f_ret,          \* what the first Apply did: [panic, out]
  f_ret2,         \* what Apply did on the batch the first Apply returned
  f_pc,           \* "idle", "once", "twice", or "crashed" after a panic
  r_cfg,          \* Rate: the configured Fields, Suffix, Factor, Delta_min,
                  \*   Period, Retention (durations in seconds)
  r_initialized,  \* Rate.initialized
  r_fields_map,   \* Rate.fields_map: the set of its keys
  r_last_cleared, \* Rate.last_cleared
  r_cache,        \* Rate.cache: id -> [field_name, field_value, tm]
  r_in,           \* the batch given to the last Rate.Apply
  r_out,          \* the batch it returned
  r_cleared0,     \* last_cleared as the last call compared it with time.Now()
  r_hist,         \* per series (id), the samples seen so far: see R_Observe
  j_cfg,          \* Jitter: the configured Fields, Interval, Jitter_max,
                  \*   Period, Retention (durations in seconds)
  j_initialized,  \* Jitter.initialized
  j_fields_map,   \* Jitter.fields_map: the set of its keys
  j_last_cleared, \* Jitter.last_cleared
  j_cache,        \* Jitter.cache: id -> [field_name, field_value, tm]
  j_in,           \* the batch given to the last Jitter.Apply
  j_out,          \* the batch it returned
  j_cleared0,     \* last_cleared as the last call compared it with time.Now()
  j_seen,         \* per sample of the last call that found a cache entry:
                  \*   [i, delta], the measurement and the delta computed
  m_cfg,          \* Monitoring: Measurement, TagName, Period, Retention, Probe
  m_initialized,  \* Monitoring.initialized
  m_fields_map,   \* Monitoring.fields_map: field -> probe
  m_last_cleared, \* Monitoring.last_cleared
  m_cache,        \* Monitoring.cache: id -> [fields, name, tags, tm]
  m_in,           \* the batch given to the last Monitoring.Apply
  m_out,          \* the batch it returned
  m_cleared0,     \* last_cleared as the last call compared it with time.Now()
  m_src,          \* per alarm of the last call, in their order: [i, key], the
                  \*   measurement and the field it was raised for
  m_pre,          \* per measurement of the last call: the cache entry of its
                  \*   series when its turn came, <<entry>>, or <<>> for none
  x_cfg,          \* Xmetrictags: Fields, Tags, Period
  x_initialized,  \* Xmetrictags.initialized
  x_last_cleared, \* Xmetrictags.last_cleared
  x_cache,        \* Xmetrictags.cache: id -> [tm, track_key_value]
  x_pc,           \* "running", or "crashed" once Apply has panicked
  x_in,           \* the batch given to the last Xmetrictags.Apply
  x_out,          \* the batch it returned
  x_cleared0,     \* last_cleared as the last call compared it with time.Now()
  x_writes,       \* per id, the last entry written under it, swept or not
  x_seen,         \* per lookup of the last call: [i, tag_name, hit, last], the
                  \*   measurement, the tag to add, whether the cache had the
                  \*   id, and the last entry written under it, <<>> for none
  xr_cfg,         \* XReducer: Tags, Fields
  xr_in,          \* the batch given to XReducer.Apply
  xr_out,         \* the batch it returned
  xr_out2,        \* the batch a second Apply returned for the first's result
  xr_pc,          \* "idle", "once" or "twice": the calls of Apply made
  s_cfg,          \* Sum.Fields: the rules [Sources, Target]
  s_in,           \* the batch given to the last Sum.Apply
  s_out,          \* the batch it returned
  enrich,         \* the package variable enrich: top key -> inner key -> tags
  e_cfg,          \* Enrichment: TwoLevels, Level1TagKey, Level2TagKey
  e_RefreshPeriod,
  e_initialized,
  e_FileError,
  e_LastUpdate,
  e_CurrentHash,
  e_in,           \* the batch given to the last Enrichment.Apply
  e_out,          \* the batch it returned
  e_f1,           \* what its first os.Open found ("none": it did not refresh)
  e_f2,           \* what its second os.Open found ("none": it did not open)
  e_pc,           \* where an Apply interleaved with another instance stands
  e_old,          \* the mapping at the start of the reload in progress
  q_in,           \* the batch of the last Apply of a second instance
  q_out,          \* the batch it returned
  q_seen,         \* the mapping that call read
  q_fatal,        \* the runtime stopped the process on that call's map read
  g_engine,       \* "gnmi" or "netconf": the input plugin of the instance
  g_Redial,       \* c.Redial, in ticks of the clock
  g_Addresses,    \* c.Addresses
  g_started,      \* "no", or what Start returned: "ok" or "error"
  g_cancelled,    \* ctx.Err() != nil
  g_wg,           \* the counter of c.wg
  g_stop,         \* "no", "waiting" (in c.wg.Wait) or "returned"
  g_w,            \* the worker goroutines, one record per goroutine
  g_dials,        \* the dial attempts made so far
  g_errors,       \* the calls of acc.AddError so far
  g_metrics,      \* the calls of acc.AddMetric so far
  n_r,            \* subscribeNETCONF: r, the requests [rpc, interval]
  n_tick,         \* its tick
  n_counters,     \* its counters: rpc -> time since the rpc was last issued
  n_pc,           \* where it stands: "start", "test", "pass", "rpc", "done"
  n_req,          \* the index in r the pass in progress has come to
  n_spent,        \* the time the pass in progress has taken so far
  n_cancelled,    \* ctx.Err() != nil
  n_first,        \* per request, the counter the initialisation left it
  n_passes,       \* the passes begun so far
  n_fired,        \* the requests issued in the first pass
  n_after,        \* per request, the RPCs issued after the cancellation
  t_xpath,        \* reply parsing: xpath, the names of the open elements
  t_value,        \* value, the character data read last
  t_metricToSend, \* metricToSend[req.rpc]: xpath -> [currentValue, visited,
                  \*   row], row the parent element it was set in
  t_tagTable,     \* tagTable[req.rpc]: xpath -> [currentValue, visited, row]
  t_grouper,      \* the calls of grouper.Add: [measurement, tags, field,
                  \*   value, row, from], from the rows its values were set in
  t_row,          \* the parent elements ended so far
  t_leaves,       \* the leaf elements of the parent element in progress
  t_last,         \* the kind of the last token: "", "start", "end", "chardata"
                  \*   or "eof"
  p_in,           \* parsePath: pathToParse
  p_w,            \* the elements p_in was written from, <<>> for none
  p_out,          \* what parsePath returned: [err, Elem], <<>> before
  p_buf,          \* what handlePath made of the path returned, <<>> before
  u_cfg,          \* GNMI: internalAliases, LongTag, LongField
  u_pc,           \* the receive loop of subscribeGNMI: "test", "recv", "ended"
  u_cancelled,    \* ctx.Err() != nil
  u_why,          \* what ended the loop: "", "recv" or "cancel"
  u_reply,        \* the reply in hand, <<>> for none
  u_adds,         \* the calls of grouper.Add made for it: [update, name,
                  \*   tags, key, longKey, aliasPath]
  u_errors,       \* the calls of acc.AddError made for it
  ep_cfg,         \* two Enrichment instances: the TwoLevels and tag keys of both
  ep_enrich,      \* the package variable enrich, which both instances use
  ep_inst,        \* per instance: RefreshPeriod, initialized, FileError,
                  \* LastUpdate, CurrentHash
  ep_who,         \* the instance of the last Apply (0: none yet)
  ep_in,          \* the batch given to the last Apply
  ep_out          \* the batch it returned

fvars == <<f_Tags, f_Fields, f_regexCache, f_in, f_ret, f_ret2, f_pc>>

rvars == <<r_cfg, r_initialized, r_fields_map, r_last_cleared, r_cache,
           r_in, r_out, r_cleared0, r_hist>>

jvars == <<j_cfg, j_initialized, j_fields_map, j_last_cleared, j_cache,
           j_in, j_out, j_cleared0, j_seen>>

mvars == <<m_cfg, m_initialized, m_fields_map, m_last_cleared, m_cache,
           m_in, m_out, m_cleared0, m_src, m_pre>>

xvars == <<x_cfg, x_initialized, x_last_cleared, x_cache, x_pc, x_in, x_out,
           x_cleared0, x_writes, x_seen>>

xrvars == <<xr_cfg, xr_in, xr_out, xr_out2, xr_pc>>

svars == <<s_cfg, s_in, s_out>>

evars == <<enrich, e_cfg, e_RefreshPeriod, e_initialized, e_FileError,
           e_LastUpdate, e_CurrentHash, e_in, e_out, e_f1, e_f2, e_pc, e_old,
           q_in, q_out, q_seen, q_fatal>>

gvars == <<g_engine, g_Redial, g_Addresses, g_started, g_cancelled, g_wg,
           g_stop, g_w, g_dials, g_errors, g_metrics>>

nvars == <<n_r, n_tick, n_counters, n_pc, n_req, n_spent, n_cancelled,
           n_first, n_passes, n_fired, n_after>>

tvars == <<t_xpath, t_value, t_metricToSend, t_tagTable, t_grouper, t_row,
           t_leaves, t_last>>

pvars == <<p_in, p_w, p_out, p_buf>>

uvars == <<u_cfg, u_pc, u_cancelled, u_why, u_reply, u_adds, u_errors>>

epvars == <<ep_cfg, ep_enrich, ep_inst, ep_who, ep_in, ep_out>>

vars == <<plugin, now, fvars, rvars, jvars, mvars, xvars,
         xrvars,
         svars,
         evars,
         gvars,
         nvars,
         tvars,
         pvars,
         uvars,
         epvars>>

----------------------------------------------------------------------------
(* Values and measurements                                                 *)

IntV(n) == [k |-> "int64", num |-> n, den |-> 1, s |-> ""]
FloatV(n, d) == [k |-> "float64", num |-> n, den |-> d, s |-> ""]
StrV(x) == [k |-> "string", num |-> 0, den |-> 1, s |-> x]
BoolV(b) == [k |-> "bool", num |-> IF b THEN 1 ELSE 0, den |-> 1, s |-> ""]

Metric(name, tags, fields, tm) ==
  [name |-> name, tags |-> tags, fields |-> fields, tm |-> tm]

HasTag(m, key) == key \in DOMAIN m.tags
HasField(m, key) == key \in DOMAIN m.fields

\* metric.AddTag / metric.AddField: set the key, replacing an existing one
AddTag(m, key, value) ==
  [m EXCEPT !.tags = (key :> value) @@ m.tags]
AddField(m, key, value) ==
  [m EXCEPT !.fields = (key :> value) @@ m.fields]

Range(s) == {s[i] : i \in DOMAIN s}

\* The empty function, for an empty tag or field map
Empty == <<>>

----------------------------------------------------------------------------
(* Filtering (plugins/processors/filtering/filtering.go)                   *)

MaxBatch == 3
MaxRules == 2

\* The patterns of the model; "(" is no regular expression
F_Patterns == {"^r1$", "("}
Compiles(pattern) == pattern # "("

\* regexp.MatchString for the patterns and the texts of the model
MatchString(pattern, src) ==
  CASE pattern = "^r1$" -> src = "r1"
    [] OTHER -> FALSE

F_TagRules ==
  [Key : {"device"}, Pattern : F_Patterns, Action : {"drop", "accept"}]
F_FieldRules ==
  [Key : {"descr"}, Pattern : {"^r1$"}, Action : {"drop", "accept"}]

SeqsUpTo(S, n) == UNION {[1..k -> S] : k \in 0..n}

\* The measurements a batch is drawn from: the tag device and the field
\* descr, each absent or present, the field a string or an integer
F_TagMaps == {Empty} \cup {("device" :> d) : d \in {"r1", "r2"}}
F_FieldMaps == {Empty, ("descr" :> StrV("r1")), ("descr" :> IntV(7))}
F_Shapes == [tags : F_TagMaps, fields : F_FieldMaps]

\* checkregex: [panic, found, cache].  MustCompile panics on a pattern that
\* does not compile; a compiled pattern is kept in the cache.
checkregex(cache, c, src) ==
  IF c.Pattern \notin cache /\ ~Compiles(c.Pattern)
  THEN [panic |-> TRUE, found |-> FALSE, cache |-> cache]
  ELSE [panic |-> FALSE, found |-> MatchString(c.Pattern, src),
        cache |-> cache \cup {c.Pattern}]

\* One rule of the tag loop or of the field loop on one measurement:
\* st = [panic, drop, cache] is the state before the rule.
TagRuleStep(st, rule, metric) ==
  IF st.panic \/ ~HasTag(metric, rule.Key) THEN st
  ELSE LET r == checkregex(st.cache, rule, metric.tags[rule.Key])
       IN  IF r.panic THEN [st EXCEPT !.panic = TRUE]
           ELSE [panic |-> FALSE, cache |-> r.cache,
                 drop |-> IF r.found
                          THEN (IF rule.Action = "drop" THEN TRUE ELSE st.drop)
                          ELSE (IF rule.Action = "accept" THEN TRUE ELSE st.drop)]

\* A field rule that takes the flag back when an accept rule matches
FieldRuleStepUnflags(st, rule, metric) ==
  IF st.panic \/ ~HasField(metric, rule.Key) THEN st
  ELSE IF metric.fields[rule.Key].k # "string" THEN st
  ELSE LET r == checkregex(st.cache, rule, metric.fields[rule.Key].s)
       IN  IF r.panic THEN [st EXCEPT !.panic = TRUE]
           ELSE [panic |-> FALSE, cache |-> r.cache,
                 drop |-> IF r.found
                          THEN rule.Action = "drop"
                          ELSE rule.Action = "accept"]

FieldRuleStep(st, rule, metric) ==
  IF st.panic \/ ~HasField(metric, rule.Key) THEN st
  ELSE IF metric.fields[rule.Key].k # "string" THEN st
  ELSE LET r == checkregex(st.cache, rule, metric.fields[rule.Key].s)
       IN  IF r.panic THEN [st EXCEPT !.panic = TRUE]
           ELSE [panic |-> FALSE, cache |-> r.cache,
                 drop |-> IF r.found
                          THEN (IF rule.Action = "drop" THEN TRUE ELSE st.drop)
                          ELSE (IF rule.Action = "accept" THEN TRUE ELSE st.drop)]

RECURSIVE TagRules(_, _, _, _)
TagRules(st, rules, i, metric) ==
  IF i > Len(rules) THEN st
  ELSE TagRules(TagRuleStep(st, rules[i], metric), rules, i + 1, metric)

RECURSIVE FieldRules(_, _, _, _)
FieldRules(st, rules, i, metric) ==
  IF i > Len(rules) THEN st
  ELSE FieldRules(FieldRuleStep(st, rules[i], metric), rules, i + 1, metric)

\* The body of the loop over the measurements up to the removal:
\* metric_to_drop after the tag rules and the field rules
Flag(cache, tagRules, fieldRules, metric) ==
  FieldRules(TagRules([panic |-> FALSE, drop |-> FALSE, cache |-> cache],
                      tagRules, 1, metric),
             fieldRules, 1, metric)

\* remove(slice, i): slice is the first len elements of the array arr.
\* Go panics when an index is not below the length of the slice.  Indices
\* are from 1 here, so i is in range iff 1 <= i <= len.
remove(arr, len, i) ==
  IF len < 1 \/ i > len
  THEN [panic |-> TRUE, arr |-> arr, len |-> len]
  ELSE [panic |-> FALSE,
        arr |-> [arr EXCEPT ![len] = arr[i], ![i] = arr[len]],
        len |-> len - 1]

\* The loop of Apply.  The range expression is evaluated once: the loop
\* runs over the n elements of the array of the original slice, and reads
\* element idx when it gets there, while metrics (arr, len) is replaced by
\* what remove returns.
RECURSIVE ApplyLoop(_, _, _, _, _, _)
ApplyLoop(arr, len, idx, cache, tagRules, fieldRules) ==
  IF idx > Len(arr)
  THEN [panic |-> FALSE, out |-> SubSeq(arr, 1, len), cache |-> cache]
  ELSE LET st == Flag(cache, tagRules, fieldRules, arr[idx])
       IN  IF st.panic
           THEN [panic |-> TRUE, out |-> <<>>, cache |-> st.cache]
           ELSE IF st.drop
           THEN LET r == remove(arr, len, idx)
                IN  IF r.panic
                    THEN [panic |-> TRUE, out |-> <<>>, cache |-> st.cache]
                    ELSE ApplyLoop(r.arr, r.len, idx + 1, st.cache,
                                   tagRules, fieldRules)
           ELSE ApplyLoop(arr, len, idx + 1, st.cache, tagRules, fieldRules)

FilteringApplyResult(cache, tagRules, fieldRules, metrics) ==
  ApplyLoop(metrics, Len(metrics), 1, cache, tagRules, fieldRules)

F_NoResult == [panic |-> FALSE, out |-> <<>>]

InitFiltering ==
  /\ f_Tags \in SeqsUpTo(F_TagRules, MaxRules)
  /\ f_Fields \in SeqsUpTo(F_FieldRules, MaxRules)
  /\ Len(f_Tags) + Len(f_Fields) <= MaxRules
  /\ f_regexCache = {}
  /\ f_in = <<>>
  /\ f_ret = F_NoResult
  /\ f_ret2 = F_NoResult
  /\ f_pc = "idle"

\* Filtering.Apply on a batch from the pipeline
FilteringApply ==
  /\ plugin = "filtering"
  /\ f_pc = "idle"
  /\ \E n \in 0..MaxBatch : \E pick \in [1..n -> F_Shapes] :
       LET batch == [i \in 1..n |->
                       Metric("ifc", pick[i].tags, pick[i].fields, i)]
           r == FilteringApplyResult(f_regexCache, f_Tags, f_Fields, batch)
       IN  /\ f_in' = batch
           /\ f_ret' = [panic |-> r.panic, out |-> r.out]
           /\ f_regexCache' = r.cache
           /\ f_pc' = IF r.panic THEN "crashed" ELSE "once"
  /\ UNCHANGED <<f_Tags, f_Fields, f_ret2>>

\* Filtering.Apply on the batch the first call returned
FilteringApplyAgain ==
  /\ plugin = "filtering"
  /\ f_pc = "once"
  /\ LET r == FilteringApplyResult(f_regexCache, f_Tags, f_Fields, f_ret.out)
     IN  /\ f_ret2' = [panic |-> r.panic, out |-> r.out]
         /\ f_regexCache' = r.cache
         /\ f_pc' = IF r.panic THEN "crashed" ELSE "twice"
  /\ UNCHANGED <<f_Tags, f_Fields, f_in, f_ret>>


----------------------------------------------------------------------------
(* The stateful processors: clock, inputs                                  *)

MaxTime == 3      \* the wall clock runs from 0 to MaxTime
MaxStep == 1      \* at most MaxStep seconds pass between two calls of Apply
MaxLag == 1       \* a measurement is at most MaxLag seconds old when processed
MaxVal == 1       \* counter values are 0..MaxVal
MaxMetrics == 1   \* a batch of a stateful processor has 0..MaxMetrics measurements

\* The values of time.Now() a call of Apply can read after the last call
Later(t) == {x \in 0..MaxTime : t <= x /\ x <= t + MaxStep}

\* Timestamps a measurement processed at time t can carry
Stamps(t) == {x \in 0..MaxTime : t - MaxLag <= x /\ x <= t}

\* The batches of at most MaxMetrics measurements drawn from shapes, each
\* with a timestamp a measurement processed at time t can carry
BatchesAt(shapes, stamps) ==
  UNION {{[i \in 1..n |->
             Metric("ifc", pick[i].tags, pick[i].fields, stamp[i])] :
            pick \in [1..n -> shapes], stamp \in [1..n -> stamps]} :
         n \in 0..MaxMetrics}
Batches(shapes, t) == BatchesAt(shapes, Stamps(t))

\* Exact rationals for the code's float64 values
RatSub(a, b) == [num |-> a.num * b.den - b.num * a.den, den |-> a.den * b.den]
RatEq(a, b) == a.num * b.den = b.num * a.den
RatLess(a, b) == a.num * b.den < b.num * a.den   \* for den > 0
RatLeq(a, b) == a.num * b.den <= b.num * a.den   \* for den > 0
Rat(n) == [num |-> n, den |-> 1]
RatOf(v) == [num |-> v.num, den |-> v.den]

\* convert: float64, int64 and uint64 values convert to float64
convert(in) ==
  IF in.k \in {"float64", "int64", "uint64"}
  THEN [ok |-> TRUE, value |-> RatOf(in)]
  ELSE [ok |-> FALSE, value |-> Rat(0)]

\* s1 + s2 for the field names and suffixes of the model
StrCat(s1, s2) ==
  CASE s2 = "" -> s1
    [] s1 = "in_octets" /\ s2 = "_rate" -> "in_octets_rate"
    [] OTHER -> "?"

----------------------------------------------------------------------------
(* Rate (src/unnamed/part_004)                                             *)

R_Configs ==
  [Fields : {{"in_octets"}}, Suffix : {"_rate", ""}, Factor : {8},
   Delta_min : {0, 1}, Period : {1}, Retention : {0, MaxTime}]

R_TagMaps == {("device" :> "r1")}
R_FieldMaps ==
  {("in_octets" :> IntV(v)) : v \in 0..MaxVal} \cup {("in_octets" :> StrV("x"))}
R_Shapes == [tags : R_TagMaps, fields : R_FieldMaps]

\* id := hash(field.Key + tags), tags the concatenation of the keys and
\* values of the tag list.  The 64-bit hash and the concatenation are taken
\* to be injective on the names of the model: the id is the pair.
RateId(key, m) == <<key, m.tags>>

\* A sweep that removes nothing
RateSweepNothing(cache, t, retention) == cache

\* The sweep of the cache: the entries older than the retention go
RateSweep(cache, t, retention) ==
  [id \in {x \in DOMAIN cache : ~(t > cache[x].tm + retention)} |-> cache[id]]

\* The record kept per series for stating properties of a series of
\* samples (no state of the code): v, t the last sample, pv the value of
\* the sample before it, dt the spacing of the samples if it was the same,
\* and positive, between all of them (0 with one sample, -1 otherwise),
\* lost whether a sweep had removed the series' entry when the last sample
\* came.
R_Observe(hist, cache, id, value, t) ==
  IF id \notin DOMAIN hist
  THEN (id :> [v |-> value, t |-> t, pv |-> value, dt |-> 0,
               lost |-> FALSE]) @@ hist
  ELSE LET h == hist[id]
       IN  (id :> [v |-> value, t |-> t, pv |-> h.v,
                   dt |-> IF t - h.t > 0 /\ (h.dt = 0 \/ h.dt = t - h.t)
                          THEN t - h.t ELSE -1,
                   lost |-> id \notin DOMAIN cache]) @@ hist

\* The body of the loop over the fields for one field of one measurement.
\* st = [cache, hist, metric]: the cache, the series record, and the
\* measurement with the fields added so far.
RateField(st, cfg, fields_map, key, field, tm) ==
  IF key \notin fields_map THEN st
  ELSE LET c == convert(field)
       IN  IF ~c.ok THEN st
           ELSE
           LET a == [field_name |-> key, field_value |-> c.value, tm |-> tm]
               id == RateId(key, st.metric)
               hist == R_Observe(st.hist, st.cache, id, c.value, tm)
           IN  IF id \in DOMAIN st.cache
               THEN LET delta == tm - st.cache[id].tm
                    IN  IF delta > cfg.Delta_min
                        THEN LET d == RatSub(c.value, st.cache[id].field_value)
                                 field_rate == [num |-> d.num * cfg.Factor,
                                                den |-> d.den * delta]
                             IN  IF field_rate.num >= 0
                                 THEN [cache |-> (id :> a) @@ st.cache,
                                       hist |-> hist,
                                       metric |->
                                         AddField(st.metric,
                                                  StrCat(key, cfg.Suffix),
                                                  FloatV(field_rate.num,
                                                         field_rate.den))]
                                 ELSE [st EXCEPT !.cache = (id :> a) @@ st.cache,
                                                 !.hist = hist]
                        ELSE [st EXCEPT !.hist = hist]
               ELSE [st EXCEPT !.cache = (id :> a) @@ st.cache, !.hist = hist]

\* The fields of the model's measurements in the order of FieldList
R_FieldList(m) ==
  IF HasField(m, "in_octets") THEN <<"in_octets">> ELSE <<>>

RECURSIVE RateFields(_, _, _, _, _, _)
RateFields(st, cfg, fields_map, m, list, i) ==
  IF i > Len(list) THEN st
  ELSE RateFields(RateField(st, cfg, fields_map, list[i], m.fields[list[i]], m.tm),
                  cfg, fields_map, m, list, i + 1)

\* The loop over the measurements: acc = [cache, hist, out]
RECURSIVE RateMetrics(_, _, _, _, _)
RateMetrics(acc, cfg, fields_map, metrics, i) ==
  IF i > Len(metrics) THEN acc
  ELSE LET st == RateFields([cache |-> acc.cache, hist |-> acc.hist,
                             metric |-> metrics[i]],
                            cfg, fields_map, metrics[i],
                            R_FieldList(metrics[i]), 1)
       IN  RateMetrics([cache |-> st.cache, hist |-> st.hist,
                        out |-> Append(acc.out, st.metric)],
                       cfg, fields_map, metrics, i + 1)

\* Whether Apply sweeps the cache at time t
RateSweepDue(t, last_cleared, period) == t > last_cleared + period

InitRate ==
  /\ r_cfg \in R_Configs
  /\ r_initialized = FALSE
  /\ r_fields_map = {}
  /\ r_last_cleared = 0
  /\ r_cache = Empty
  /\ r_in = <<>>
  /\ r_out = <<>>
  /\ r_cleared0 = 0
  /\ r_hist = Empty

\* Rate.Apply on a batch, called at time t
RateApply ==
  /\ plugin = "rate"
  /\ \E t \in Later(now) : \E batch \in Batches(R_Shapes, t) :
    LET fields_map == IF r_initialized THEN r_fields_map ELSE r_cfg.Fields
        cleared == IF r_initialized THEN r_last_cleared ELSE t
        due == RateSweepDue(t, cleared, r_cfg.Period)
        kept == IF due THEN RateSweep(r_cache, t, r_cfg.Retention)
                ELSE r_cache
        r == RateMetrics([cache |-> kept, hist |-> r_hist, out |-> <<>>],
                         r_cfg, fields_map, batch, 1)
    IN  /\ now' = t
        /\ r_initialized' = TRUE
        /\ r_fields_map' = fields_map
        /\ r_last_cleared' = IF due THEN t ELSE cleared
        /\ r_cache' = r.cache
        /\ r_hist' = r.hist
        /\ r_in' = batch
        /\ r_out' = r.out
        /\ r_cleared0' = cleared
        /\ UNCHANGED r_cfg

----------------------------------------------------------------------------
(* Jitter (plugins/processors/jitter/jitter.go)                            *)

J_Configs ==
  [Fields : {{"in_octets"}}, Interval : {2}, Jitter_max : {0, 1},
   Period : {1}, Retention : {0, MaxTime}]

JitterId(key, m) == <<key, m.tags>>

JitterSweep(cache, t, retention) ==
  [id \in {x \in DOMAIN cache : ~(t > cache[x].tm + retention)} |-> cache[id]]

JitterSweepDue(t, last_cleared, period) == t > last_cleared + period

\* The test on delta that raises the alarm
JitterExceeded(delta, interval, jitter_max) ==
  delta >= interval + jitter_max \/ delta <= interval - jitter_max

\* metric.New("JITTER_MEASUREMENT", {}, {"exception": delta}, time) with the
\* tags of the measurement added
JitterAlarm(m, delta) ==
  Metric("JITTER_MEASUREMENT", m.tags, ("exception" :> FloatV(delta, 1)), m.tm)

\* The body of the loop over the fields for one field of measurement i.
\* st = [cache, alarms, seen]
JitterField(st, cfg, fields_map, key, m, i) ==
  IF key \notin fields_map THEN st
  ELSE LET c == convert(m.fields[key])
       IN  IF ~c.ok THEN st
           ELSE
           LET a == [field_name |-> key, field_value |-> c.value, tm |-> m.tm]
               id == JitterId(key, m)
           IN  IF id \in DOMAIN st.cache
               THEN LET delta == m.tm - st.cache[id].tm
                    IN  [cache |-> (id :> a) @@ st.cache,
                         alarms |->
                           IF JitterExceeded(delta, cfg.Interval, cfg.Jitter_max)
                           THEN Append(st.alarms, JitterAlarm(m, delta))
                           ELSE st.alarms,
                         seen |-> Append(st.seen, [i |-> i, delta |-> delta])]
               ELSE [st EXCEPT !.cache = (id :> a) @@ st.cache]

RECURSIVE JitterFields(_, _, _, _, _, _, _)
JitterFields(st, cfg, fields_map, m, i, list, k) ==
  IF k > Len(list) THEN st
  ELSE JitterFields(JitterField(st, cfg, fields_map, list[k], m, i),
                    cfg, fields_map, m, i, list, k + 1)

RECURSIVE JitterMetrics(_, _, _, _, _)
JitterMetrics(st, cfg, fields_map, metrics, i) ==
  IF i > Len(metrics) THEN st
  ELSE JitterMetrics(JitterFields(st, cfg, fields_map, metrics[i], i,
                                  R_FieldList(metrics[i]), 1),
                     cfg, fields_map, metrics, i + 1)

InitJitter ==
  /\ j_cfg \in J_Configs
  /\ j_initialized = FALSE
  /\ j_fields_map = {}
  /\ j_last_cleared = 0
  /\ j_cache = Empty
  /\ j_in = <<>>
  /\ j_out = <<>>
  /\ j_cleared0 = 0
  /\ j_seen = <<>>

\* Jitter.Apply on a batch, called at time t
JitterApply ==
  /\ plugin = "jitter"
  /\ \E t \in Later(now) : \E batch \in Batches(R_Shapes, t) :
    LET fields_map == IF j_initialized THEN j_fields_map ELSE j_cfg.Fields
        cleared == IF j_initialized THEN j_last_cleared ELSE t
        due == JitterSweepDue(t, cleared, j_cfg.Period)
        kept == IF due THEN JitterSweep(j_cache, t, j_cfg.Retention)
                ELSE j_cache
        r == JitterMetrics([cache |-> kept, alarms |-> <<>>, seen |-> <<>>],
                           j_cfg, fields_map, batch, 1)
    IN  /\ now' = t
        /\ j_initialized' = TRUE
        /\ j_fields_map' = fields_map
        /\ j_last_cleared' = IF due THEN t ELSE cleared
        /\ j_cache' = r.cache
        /\ j_in' = batch
        /\ j_out' = batch \o r.alarms
        /\ j_seen' = r.seen
        /\ j_cleared0' = cleared
        /\ UNCHANGED j_cfg

----------------------------------------------------------------------------
(* Monitoring (src/unnamed/part_005)                                       *)

\* float64 division: a float is a rational with den > 0, or den = 0 and num
\* 1, -1 or 0 for +Inf, -Inf and NaN.  a and b are finite.
FloatDiv(a, b) ==
  LET n == a.num * b.den
      d == a.den * b.num
  IN  IF d > 0 THEN [num |-> n, den |-> d]
      ELSE IF d < 0 THEN [num |-> -n, den |-> -d]
      ELSE [num |-> IF n > 0 THEN 1 ELSE IF n < 0 THEN -1 ELSE 0, den |-> 0]
FloatMul(a, n) == [num |-> a.num * n, den |-> a.den]

\* x < y, x > y, x == y for a float x and a finite y
FloatLt(x, y) == IF x.den = 0 THEN x.num < 0 ELSE RatLess(x, y)
FloatGt(x, y) == IF x.den = 0 THEN x.num > 0 ELSE RatLess(y, x)
FloatEq(x, y) == IF x.den = 0 THEN FALSE ELSE RatEq(x, y)

M_Probe(alarm, field, type, op, min, copy, tags) ==
  [AlarmName |-> alarm, Field |-> field, ProbeType |-> type,
   Threshold |-> Rat(0), MinValue |-> Rat(min), Operator |-> op,
   CopyTag |-> copy, Tags |-> tags]

M_Types == {"current", "delta", "delta_percent", "delta_rate"}
M_Ops == {"lt", "gt", "eq"}

M_Config(tagname, probes) ==
  [Measurement |-> "ALARMING", TagName |-> tagname, Period |-> 1,
   Retention |-> 0, Probe |-> probes]

\* The configurations of the model: one probe on cpu of every type and
\* operator, with and without a min_value; a current probe with every way
\* of copying tags; two probes on two fields; two probes on one field
M_Configs ==
  {M_Config("ALARM_TYPE", <<M_Probe("CPU", "cpu", type, op, min, FALSE, <<>>)>>) :
     type \in {"current", "delta"}, op \in M_Ops, min \in {0, 2}}
  \cup {M_Config("ALARM_TYPE",
                 <<M_Probe("CPU", "cpu", type, op, 0, FALSE, <<>>)>>) :
          type \in {"delta_percent", "delta_rate"}, op \in M_Ops}
  \cup {M_Config("ALARM_TYPE",
                 <<M_Probe("CPU", "cpu", "current", "gt", 0, TRUE, tags)>>) :
          tags \in {<<>>, <<"device">>, <<"site", "ALARM_TYPE">>}}
  \cup {M_Config("ALARM_TYPE",
                 <<M_Probe("CPU", "cpu", "delta", op, 0, FALSE, <<>>),
                   M_Probe("MEM", "mem", type, op, 0, FALSE, <<>>)>>) :
          type \in {"delta", "delta_rate"}, op \in {"gt"}}
  \cup {M_Config("ALARM_TYPE",
                 <<M_Probe("CPU_HIGH", "cpu", "current", "gt", 0, FALSE, <<>>),
                   M_Probe("CPU_LOW", "cpu", "current", "lt", 0, FALSE, <<>>)>>)}

\* The measurements of the model: one series of a device, its cpu a
\* number or a string, with or without mem, and a measurement of the same
\* device that already carries a tag named as the alarms' tag
M_FieldMaps ==
  {("cpu" :> IntV(v)) : v \in 0..(MaxVal + 1)}
  \cup {("cpu" :> IntV(1)) @@ ("mem" :> IntV(MaxVal + 1)),
        ("cpu" :> IntV(MaxVal + 1)) @@ ("mem" :> IntV(1)),
        ("cpu" :> StrV("x"))}
M_Shapes ==
  [tags : {("device" :> "r1") @@ ("role" :> "core")}, fields : M_FieldMaps]
  \cup {[tags |-> ("device" :> "r1") @@ ("ALARM_TYPE" :> "old"),
         fields |-> ("cpu" :> IntV(1))]}

\* p.fields_map[monitor.Field] = monitor, for the probes in their order
M_FieldsMap(probes) ==
  [f \in {probes[i].Field : i \in DOMAIN probes} |->
     LET last == CHOOSE i \in DOMAIN probes :
                   /\ probes[i].Field = f
                   /\ \A j \in DOMAIN probes : probes[j].Field = f => j <= i
     IN  probes[last]]

\* mymetric.HashID(): a hash of the name and the tags, taken as injective
MonitoringId(m) == <<m.name, m.tags>>

MonitoringSweep(cache, t, retention) ==
  [id \in {x \in DOMAIN cache : ~(t > cache[x].tm + retention)} |-> cache[id]]

MonitoringSweepDue(t, last_cleared, period) == t > last_cleared + period

\* a := compute{...} and the loop that fills a.fields: every field of the
\* measurement that has a probe gets the value convert returns, which is 0
\* for a value that does not convert
M_Compute(m, fields_map) ==
  [name |-> m.name, tags |-> m.tags, tm |-> m.tm,
   fields |-> [key \in DOMAIN m.fields \cap DOMAIN fields_map |->
                 convert(m.fields[key]).value]]

M_HasField(m, fields_map) ==
  \E key \in DOMAIN m.fields \cap DOMAIN fields_map : convert(m.fields[key]).ok

\* The tags of the original added to the alarm: those of the list that the
\* original has, in the order of the list, or all of them
RECURSIVE M_CopyListed(_, _, _, _)
M_CopyListed(alarm, tags, list, k) ==
  IF k > Len(list) THEN alarm
  ELSE M_CopyListed(IF list[k] \in DOMAIN tags
                    THEN AddTag(alarm, list[k], tags[list[k]]) ELSE alarm,
                    tags, list, k + 1)

M_CopyTags(alarm, probe, tags) ==
  IF ~probe.CopyTag THEN alarm
  ELSE IF Len(probe.Tags) > 0 THEN M_CopyListed(alarm, tags, probe.Tags, 1)
  ELSE [alarm EXCEPT !.tags = tags @@ alarm.tags]

\* newAlarm: metric.New(p.Measurement, {}, {"exception": x}, time), the tag
\* tag_name = alarm_name added, then the copied tags
M_Alarm(cfg, probe, a, x) ==
  M_CopyTags(AddTag(Metric(cfg.Measurement, Empty,
                           ("exception" :> FloatV(x.num, x.den)), a.tm),
                    cfg.TagName, probe.AlarmName),
             probe, a.tags)

\* The switch on the operator with gt taken as greater or equal
M_ReachedOrEqual(op, x, threshold) ==
  CASE op = "lt" -> FloatLt(x, threshold)
    [] op = "gt" -> FloatGt(x, threshold) \/ FloatEq(x, threshold)
    [] op = "eq" -> FloatEq(x, threshold)
    [] OTHER -> FALSE

\* The switch on the operator
M_Reached(op, x, threshold) ==
  CASE op = "lt" -> FloatLt(x, threshold)
    [] op = "gt" -> FloatGt(x, threshold)
    [] op = "eq" -> FloatEq(x, threshold)
    [] OTHER -> FALSE

\* The quantity a delta-family probe compares, from the value, the cached
\* value lv of the field and the cached entry
M_Quantity(type, value, lv, a, entry) ==
  CASE type = "delta" -> RatSub(value, lv)
    [] type = "delta_percent" -> FloatMul(FloatDiv(RatSub(value, lv), lv), 100)
    [] type = "delta_rate" -> FloatDiv(RatSub(value, lv), Rat(a.tm - entry.tm))

\* Whether the probe lets a value through: value >= min_value
M_AboveMin(value, probe) == RatLeq(probe.MinValue, value)

\* The body of the loop over a.fields for one key.  st = [cache, alarms, src]
MonitoringKey(st, cfg, fields_map, a, id, i, key) ==
  LET value == a.fields[key]
      probe == fields_map[key]
      raise(x) == [st EXCEPT !.alarms = Append(@, M_Alarm(cfg, probe, a, x)),
                             !.src = Append(@, [i |-> i, key |-> key])]
  IN  IF ~M_AboveMin(value, probe) THEN st
      ELSE IF probe.ProbeType = "current"
      THEN IF M_Reached(probe.Operator, value, probe.Threshold)
           THEN raise(value) ELSE st
      ELSE IF probe.ProbeType \in {"delta", "delta_percent", "delta_rate"}
      THEN IF id \notin DOMAIN st.cache
           THEN [st EXCEPT !.cache = (id :> a) @@ st.cache]
           ELSE LET entry == st.cache[id]
                    st1 == IF key \in DOMAIN entry.fields
                           THEN LET x == M_Quantity(probe.ProbeType, value,
                                                    entry.fields[key], a, entry)
                                IN  IF M_Reached(probe.Operator, x,
                                                 probe.Threshold)
                                    THEN raise(x) ELSE st
                           ELSE st
                IN  [st1 EXCEPT !.cache = (id :> a) @@ st.cache]
      ELSE st

RECURSIVE MonitoringKeys(_, _, _, _, _, _, _, _)
MonitoringKeys(st, cfg, fields_map, a, id, i, keys, k) ==
  IF k > Len(keys) THEN st
  ELSE MonitoringKeys(MonitoringKey(st, cfg, fields_map, a, id, i, keys[k]),
                      cfg, fields_map, a, id, i, keys, k + 1)

\* The keys of a.fields in one of the orders the range over the map can
\* take: the model's keys are cpu and mem
M_KeyOrder(fields, reverse) ==
  LET base == SelectSeq(IF reverse THEN <<"mem", "cpu">> ELSE <<"cpu", "mem">>,
                        LAMBDA key : key \in DOMAIN fields)
  IN  base

\* The loop over the measurements.  st = [cache, alarms, src, pre]
RECURSIVE MonitoringMetrics(_, _, _, _, _, _)
MonitoringMetrics(st, cfg, fields_map, metrics, order, i) ==
  IF i > Len(metrics) THEN st
  ELSE LET m == metrics[i]
           id == MonitoringId(m)
           a == M_Compute(m, fields_map)
           pre == IF id \in DOMAIN st.cache THEN <<st.cache[id]>> ELSE <<>>
           st0 == [cache |-> st.cache, alarms |-> st.alarms, src |-> st.src]
           st1 == IF M_HasField(m, fields_map)
                  THEN MonitoringKeys(st0, cfg, fields_map, a, id, i,
                                      M_KeyOrder(a.fields, order[i]), 1)
                  ELSE st0
       IN  MonitoringMetrics([cache |-> st1.cache, alarms |-> st1.alarms,
                              src |-> st1.src, pre |-> Append(st.pre, pre)],
                             cfg, fields_map, metrics, order, i + 1)

InitMonitoring ==
  /\ m_cfg \in M_Configs
  /\ m_initialized = FALSE
  /\ m_fields_map = Empty
  /\ m_last_cleared = 0
  /\ m_cache = Empty
  /\ m_in = <<>>
  /\ m_out = <<>>
  /\ m_cleared0 = 0
  /\ m_src = <<>>
  /\ m_pre = <<>>

\* Monitoring.Apply on a batch, called at time t; order is the order in
\* which the range over a.fields yields the keys, per measurement
MonitoringApply ==
  /\ plugin = "monitoring"
  /\ \E t \in Later(now) : \E batch \in Batches(M_Shapes, t) :
     \E order \in [DOMAIN batch -> BOOLEAN] :
    LET fields_map == IF m_initialized THEN m_fields_map
                      ELSE M_FieldsMap(m_cfg.Probe)
        cleared == IF m_initialized THEN m_last_cleared ELSE t
        due == MonitoringSweepDue(t, cleared, m_cfg.Period)
        kept == IF due THEN MonitoringSweep(m_cache, t, m_cfg.Retention)
                ELSE m_cache
        r == MonitoringMetrics([cache |-> kept, alarms |-> <<>>, src |-> <<>>,
                                pre |-> <<>>],
                               m_cfg, fields_map, batch, order, 1)
    IN  /\ now' = t
        /\ m_initialized' = TRUE
        /\ m_fields_map' = fields_map
        /\ m_last_cleared' = IF due THEN t ELSE cleared
        /\ m_cache' = r.cache
        /\ m_in' = batch
        /\ m_out' = batch \o r.alarms
        /\ m_src' = r.src
        /\ m_pre' = r.pre
        /\ m_cleared0' = cleared
        /\ UNCHANGED m_cfg

----------------------------------------------------------------------------
(* Xmetrictags (plugins/processors/xmetrictags/xmetrictags.go)             *)

X_Rule(track_key, tag_keys, tag_name, retention) ==
  [Track_key |-> track_key, Tag_keys |-> tag_keys, Tag_name |-> tag_name,
   Retention |-> retention]

\* The configurations of the model: a field rule with a short and a long
\* retention, a tag rule, and a rule without tag_keys
X_Configs ==
  {[Fields |-> <<X_Rule("parent_ae", <<"device", "if_name">>, "lag_id", ret)>>,
    Tags |-> <<>>, Period |-> 1] : ret \in {0, 1}}
  \cup {[Fields |-> <<>>, Period |-> 1,
         Tags |-> <<X_Rule("vrf", <<"device">>, "vrf_id", 1)>>],
        [Fields |-> <<X_Rule("parent_ae", <<>>, "lag_id", 1)>>,
         Tags |-> <<>>, Period |-> 1]}

\* The measurements of the model: an interface of r1 with its parent_ae a
\* string, the empty string, a number, or absent; an interface of r2
\* without parent_ae; a measurement without the if_name tag; a measurement
\* with a vrf tag
X_Shapes ==
  {[tags |-> ("device" :> "r1") @@ ("if_name" :> "ge0"), fields |-> f] :
     f \in {("parent_ae" :> StrV("ae0")), ("parent_ae" :> StrV("ae1")),
            ("parent_ae" :> StrV("")), ("parent_ae" :> IntV(1)),
            ("mtu" :> IntV(1))}}
  \cup {[tags |-> ("device" :> "r2") @@ ("if_name" :> "ge0"),
         fields |-> ("mtu" :> IntV(1))],
        [tags |-> ("device" :> "r1"), fields |-> ("parent_ae" :> StrV("ae0"))],
        [tags |-> ("device" :> "r1") @@ ("vrf" :> "blue"),
         fields |-> ("mtu" :> IntV(1))]}

\* The loop over tag_keys: hash_string grows by the value of every tag, and
\* hastags ends true if there is a tag_key and the measurement has them all
RECURSIVE X_HashString(_, _, _, _)
X_HashString(rule, m, k, acc) ==
  IF k > Len(rule.Tag_keys) THEN acc
  ELSE IF rule.Tag_keys[k] \notin DOMAIN m.tags
  THEN [acc EXCEPT !.hastags = FALSE]
  ELSE X_HashString(rule, m, k + 1,
                    [hash_string |-> acc.hash_string \o m.tags[rule.Tag_keys[k]],
                     hastags |-> TRUE])

\* hash(hash_string): the 64-bit hash taken as injective
X_Id(rule, m) ==
  X_HashString(rule, m, 1, [hash_string |-> rule.Track_key, hastags |-> FALSE])

\* The sweep taking also the entries that expire at time.Now()
X_SweepAtExpiry(cache, t) ==
  [id \in {y \in DOMAIN cache : ~(t >= cache[y].tm)} |-> cache[id]]

\* The sweep: the entries whose expiry time.Now() is after go
X_Sweep(cache, t) == [id \in {y \in DOMAIN cache : ~(t > cache[y].tm)} |-> cache[id]]

X_SweepDue(t, last_cleared, period) == t > last_cleared + period

\* The lookup for a measurement without the track_key that has the tags
X_Lookup(st, rule, h, i) ==
  LET id == h.hash_string
      hit == id \in DOMAIN st.cache
      last == IF id \in DOMAIN st.writes THEN <<st.writes[id]>> ELSE <<>>
      seen == Append(st.seen, [i |-> i, tag_name |-> rule.Tag_name,
                               hit |-> hit, last |-> last])
  IN  IF hit
      THEN [st EXCEPT !.metric = AddTag(@, rule.Tag_name,
                                        st.cache[id].track_key_value),
                      !.seen = seen]
      ELSE [st EXCEPT !.seen = seen]

\* The store for a measurement with the track_key value str_value
X_Store(st, rule, h, str_value, t) ==
  IF str_value = "" THEN st
  ELSE LET id == h.hash_string
           a == [tm |-> t + rule.Retention, track_key_value |-> str_value]
       IN  [st EXCEPT !.cache = (id :> a) @@ @,
                      !.writes = (id :> a) @@ @,
                      !.metric = AddTag(@, rule.Tag_name, str_value)]

\* The body of the loop over p.Fields.
\* st = [panic, cache, writes, metric, seen]
X_FieldRule(st, rule, t, i) ==
  LET h == X_Id(rule, st.metric)
      ok == rule.Track_key \in DOMAIN st.metric.fields
  IN  IF st.panic \/ ~h.hastags THEN st
      ELSE IF ok
      THEN IF st.metric.fields[rule.Track_key].k # "string"
           THEN [st EXCEPT !.panic = TRUE]
           ELSE X_Store(st, rule, h, st.metric.fields[rule.Track_key].s, t)
      ELSE X_Lookup(st, rule, h, i)

\* The body of the loop over p.Tags
X_TagRule(st, rule, t, i) ==
  LET h == X_Id(rule, st.metric)
      ok == rule.Track_key \in DOMAIN st.metric.tags
  IN  IF st.panic \/ ~h.hastags THEN st
      ELSE IF ok THEN X_Store(st, rule, h, st.metric.tags[rule.Track_key], t)
      ELSE X_Lookup(st, rule, h, i)

RECURSIVE X_FieldRules(_, _, _, _, _)
X_FieldRules(st, rules, t, i, k) ==
  IF k > Len(rules) THEN st
  ELSE X_FieldRules(X_FieldRule(st, rules[k], t, i), rules, t, i, k + 1)

RECURSIVE X_TagRules(_, _, _, _, _)
X_TagRules(st, rules, t, i, k) ==
  IF k > Len(rules) THEN st
  ELSE X_TagRules(X_TagRule(st, rules[k], t, i), rules, t, i, k + 1)

\* The loop over the measurements.  acc = [panic, cache, writes, out, seen]
RECURSIVE X_Metrics(_, _, _, _, _)
X_Metrics(acc, cfg, metrics, t, i) ==
  IF i > Len(metrics) THEN acc
  ELSE LET st0 == [panic |-> acc.panic, cache |-> acc.cache,
                   writes |-> acc.writes, metric |-> metrics[i],
                   seen |-> acc.seen]
           st1 == X_FieldRules(st0, cfg.Fields, t, i, 1)
           st2 == X_TagRules(st1, cfg.Tags, t, i, 1)
       IN  X_Metrics([panic |-> st2.panic, cache |-> st2.cache,
                      writes |-> st2.writes, out |-> Append(acc.out, st2.metric),
                      seen |-> st2.seen],
                     cfg, metrics, t, i + 1)

InitXmetrictags ==
  /\ x_cfg \in X_Configs
  /\ x_initialized = FALSE
  /\ x_last_cleared = 0
  /\ x_cache = Empty
  /\ x_pc = "running"
  /\ x_in = <<>>
  /\ x_out = <<>>
  /\ x_cleared0 = 0
  /\ x_writes = Empty
  /\ x_seen = <<>>

\* Xmetrictags.Apply on a batch, called at time t
XmetrictagsApply ==
  /\ plugin = "xmetrictags"
  /\ x_pc = "running"
  /\ \E t \in Later(now) : \E batch \in BatchesAt(X_Shapes, {t}) :
    LET cleared == IF x_initialized THEN x_last_cleared ELSE t
        due == X_SweepDue(t, cleared, x_cfg.Period)
        kept == IF due THEN X_Sweep(x_cache, t) ELSE x_cache
        r == X_Metrics([panic |-> FALSE, cache |-> kept, writes |-> x_writes,
                        out |-> <<>>, seen |-> <<>>],
                       x_cfg, batch, t, 1)
    IN  /\ now' = t
        /\ x_initialized' = TRUE
        /\ x_last_cleared' = IF due THEN t ELSE cleared
        /\ x_cache' = r.cache
        /\ x_writes' = r.writes
        /\ x_pc' = IF r.panic THEN "crashed" ELSE "running"
        /\ x_in' = batch
        /\ x_out' = IF r.panic THEN <<>> ELSE r.out
        /\ x_seen' = r.seen
        /\ x_cleared0' = cleared
        /\ UNCHANGED x_cfg

----------------------------------------------------------------------------
(* XReducer (plugins/processors/xreducer/xreducer.go)                      *)
(* A key is the sequence of its characters; the tags and the fields of a   *)
(* measurement are the lists TagList() and FieldList() give, whose         *)
(* elements Apply changes in place.                                        *)

XR_All == <<"a", "l", "l">>
XR_AB == <<"/", "a", "/", "b">>
XR_B == <<"b">>
XR_XB == <<"x", "/", "b">>
XR_ASlash == <<"a", "/">>

XR_Match(key) == [Key |-> key]
XR_Matches == {XR_Match(XR_All), XR_Match(XR_AB), XR_Match(XR_B)}

\* The configurations of the model: at most MaxRules rules in all
XR_Configs ==
  {c \in [Tags : SeqsUpTo(XR_Matches, MaxRules),
          Fields : SeqsUpTo(XR_Matches, MaxRules)] :
     Len(c.Tags) + Len(c.Fields) <= MaxRules}

XR_Pair(key, value) == [Key |-> key, Value |-> value]

\* The measurements of the model: keys with and without a '/', keys whose
\* last segments are equal, a key that ends with a '/'
XR_Shapes ==
  {[tags |-> <<XR_Pair(XR_AB, "v1")>>, fields |-> <<XR_Pair(XR_AB, IntV(1))>>],
   [tags |-> <<XR_Pair(XR_B, "v1")>>, fields |-> <<XR_Pair(XR_B, IntV(1))>>],
   [tags |-> <<XR_Pair(XR_AB, "v1"), XR_Pair(XR_XB, "v2")>>,
    fields |-> <<XR_Pair(XR_AB, IntV(1))>>],
   [tags |-> <<XR_Pair(XR_ASlash, "v1")>>,
    fields |-> <<XR_Pair(XR_AB, IntV(1)), XR_Pair(XR_B, IntV(2))>>],
   [tags |-> <<>>, fields |-> <<XR_Pair(XR_XB, IntV(1))>>],
   [tags |-> <<XR_Pair(XR_B, "v1"), XR_Pair(XR_AB, "v2")>>,
    fields |-> <<XR_Pair(XR_ASlash, IntV(1))>>]}

\* strings.Contains(key, "/")
XR_Contains(key) == \E i \in DOMAIN key : key[i] = "/"

\* strings.Split(key, "/"): the segments between the '/' of key
RECURSIVE XR_Split(_, _, _, _)
XR_Split(key, i, cur, acc) ==
  IF i > Len(key) THEN Append(acc, cur)
  ELSE IF key[i] = "/" THEN XR_Split(key, i + 1, <<>>, Append(acc, cur))
  ELSE XR_Split(key, i + 1, Append(cur, key[i]), acc)

\* parts[0] in the place of the last part
XR_ReduceToFirst(key) ==
  IF XR_Contains(key)
  THEN LET parts == XR_Split(key, 1, <<>>, <<>>) IN parts[1]
  ELSE key

\* parts[len(parts)-1] of a key that contains a '/', the key otherwise
XR_Reduce(key) ==
  IF XR_Contains(key)
  THEN LET parts == XR_Split(key, 1, <<>>, <<>>) IN parts[Len(parts)]
  ELSE key

\* The loop over the tags (or the fields) for one rule
XR_Elem(list, elem) ==
  [i \in DOMAIN list |->
     IF list[i].Key = elem.Key \/ elem.Key = XR_All
     THEN [list[i] EXCEPT !.Key = XR_Reduce(@)]
     ELSE list[i]]

\* The loop over the rules
RECURSIVE XR_Rules(_, _, _)
XR_Rules(list, rules, k) ==
  IF k > Len(rules) THEN list
  ELSE XR_Rules(XR_Elem(list, rules[k]), rules, k + 1)

XR_Metric(cfg, m) ==
  [m EXCEPT !.tags = XR_Rules(@, cfg.Tags, 1),
            !.fields = XR_Rules(@, cfg.Fields, 1)]

XReducerApplyResult(cfg, metrics) ==
  [i \in DOMAIN metrics |-> XR_Metric(cfg, metrics[i])]

InitXReducer ==
  /\ xr_cfg \in XR_Configs
  /\ xr_in = <<>>
  /\ xr_out = <<>>
  /\ xr_out2 = <<>>
  /\ xr_pc = "idle"

\* XReducer.Apply on a batch from the pipeline
XReducerApply ==
  /\ plugin = "xreducer"
  /\ xr_pc = "idle"
  /\ \E batch \in BatchesAt(XR_Shapes, {0}) :
       /\ xr_in' = batch
       /\ xr_out' = XReducerApplyResult(xr_cfg, batch)
  /\ xr_pc' = "once"
  /\ UNCHANGED <<xr_cfg, xr_out2>>

\* XReducer.Apply on the batch the first call returned
XReducerApplyAgain ==
  /\ plugin = "xreducer"
  /\ xr_pc = "once"
  /\ xr_out2' = XReducerApplyResult(xr_cfg, xr_out)
  /\ xr_pc' = "twice"
  /\ UNCHANGED <<xr_cfg, xr_in, xr_out>>

----------------------------------------------------------------------------
(* Sum (plugins/processors/sum/sum.go)                                     *)

S_Rule(sources, target) == [Sources |-> sources, Target |-> target]

\* The rules of the model: the sample configuration's, a rule that sums
\* the target of another, a rule that names a source twice, a rule whose
\* target is its source
S_Rules ==
  {S_Rule(<<"a", "b">>, "aplusb"), S_Rule(<<"aplusb", "c">>, "total"),
   S_Rule(<<"a", "a">>, "twice"), S_Rule(<<"a">>, "a")}

S_Configs == SeqsUpTo(S_Rules, MaxRules)

\* The measurements of the model: a an integer, a string or absent, b a
\* float or absent, c an integer or absent
S_FieldMaps ==
  {fa @@ fb @@ fc :
     fa \in {Empty, ("a" :> IntV(1)), ("a" :> StrV("x"))},
     fb \in {Empty, ("b" :> FloatV(1, 2))},
     fc \in {Empty, ("c" :> IntV(1))}}
S_Shapes == [tags : {("device" :> "r1")}, fields : S_FieldMaps]

RatAdd(a, b) == [num |-> a.num * b.den + b.num * a.den, den |-> a.den * b.den]

\* The loop over compute.Sources: acc = [result, add_field]
RECURSIVE S_Sources(_, _, _, _)
S_Sources(acc, m, sources, k) ==
  IF k > Len(sources) THEN acc
  ELSE LET sum_field == sources[k]
           next == IF sum_field \in DOMAIN m.fields
                      /\ convert(m.fields[sum_field]).ok
                   THEN [result |-> RatAdd(acc.result,
                                           convert(m.fields[sum_field]).value),
                         add_field |-> TRUE]
                   ELSE acc
       IN  S_Sources(next, m, sources, k + 1)

\* A body of the loop that adds the target as soon as a source is on the
\* measurement
S_ComputeWhenPresent(m, compute) ==
  LET r == S_Sources([result |-> Rat(0), add_field |-> FALSE], m,
                     compute.Sources, 1)
  IN  IF \E k \in DOMAIN compute.Sources : compute.Sources[k] \in DOMAIN m.fields
      THEN AddField(m, compute.Target, FloatV(r.result.num, r.result.den))
      ELSE m

\* The body of the loop over p.Fields
S_Compute(m, compute) ==
  LET r == S_Sources([result |-> Rat(0), add_field |-> FALSE], m,
                     compute.Sources, 1)
  IN  IF r.add_field
      THEN AddField(m, compute.Target, FloatV(r.result.num, r.result.den))
      ELSE m

RECURSIVE S_Computes(_, _, _)
S_Computes(m, rules, k) ==
  IF k > Len(rules) THEN m
  ELSE S_Computes(S_Compute(m, rules[k]), rules, k + 1)

InitSum ==
  /\ s_cfg \in S_Configs
  /\ s_in = <<>>
  /\ s_out = <<>>

\* Sum.Apply on a batch from the pipeline
SumApply ==
  /\ plugin = "sum"
  /\ \E batch \in BatchesAt(S_Shapes, {0}) :
       /\ s_in' = batch
       /\ s_out' = [i \in DOMAIN batch |-> S_Computes(batch[i], s_cfg, 1)]
  /\ UNCHANGED s_cfg

----------------------------------------------------------------------------
(* Enrichment (plugins/processors/enrichment/enrichment.go)                *)

\* The refresh period taken when the configured one is not positive
E_DefaultRefresh == 60

E_Configs ==
  [TwoLevels : BOOLEAN, Level1TagKey : {"device"}, Level2TagKey : {<<"if">>}]
E_Periods == {0, 1}

\* What os.Open finds at EnrichFilePath: no file, or a file holding one of
\* three contents, the last of them no JSON
E_Contents == {"A", "B", "bad"}
E_Files == {"missing"} \cup E_Contents

EmptyDB == Empty
DB_A ==
  ("r1" :> (("LEVEL1TAGS" :> ("site" :> "s1")) @@ ("ge-0" :> ("role" :> "core"))))
  @@ ("r2" :> ("LEVEL1TAGS" :> ("site" :> "s1")))
DB_B ==
  ("r1" :> ("LEVEL1TAGS" :> ("site" :> "s2")))
  @@ ("r2" :> ("LEVEL1TAGS" :> ("site" :> "s2")))

\* An Unmarshal that leaves the mapping as it was when the content is no
\* JSON
E_ParseOrKeep(content) ==
  CASE content = "A" -> DB_A
    [] content = "B" -> DB_B
    [] OTHER -> enrich

\* json.Unmarshal of the content into the mapping made empty before it: a
\* content that is no JSON stores nothing
E_Parse(content) ==
  CASE content = "A" -> DB_A
    [] content = "B" -> DB_B
    [] OTHER -> EmptyDB

\* The hex MD5 of a content, taken as injective
E_MD5(content) == "md5:" \o content

E_Shapes ==
  [tags : {("device" :> "r1") @@ ("if" :> "ge-0"), ("device" :> "r2"), Empty},
   fields : {("x" :> IntV(1))}]

\* A comparison that always asks for a reload
E_UpdateAlways(MD5String, CurrentHash) == TRUE

\* The comparison of the file's hash with CurrentHash that decides update_db
E_UpdateDb(MD5String, CurrentHash) == MD5String # CurrentHash

\* The refresh of Apply called at time t (in minutes), the first os.Open
\* finding f1 and the second f2: the fields of the instance and the mapping
\* after it
E_Refresh(t, f1, f2) ==
  LET delta == t - e_LastUpdate
      due == ~e_initialized \/ delta >= e_RefreshPeriod
      period == IF e_RefreshPeriod <= 0 THEN E_DefaultRefresh
                ELSE e_RefreshPeriod
      opened == f1 # "missing"
      update_db == opened /\ E_UpdateDb(E_MD5(f1), e_CurrentHash)
      hash == IF update_db THEN E_MD5(f1) ELSE e_CurrentHash
      \* after the first os.Open
      FileError1 == IF opened THEN e_FileError ELSE TRUE
      initialized1 == IF opened THEN e_initialized ELSE FALSE
  IN  IF ~due
      THEN [RefreshPeriod |-> e_RefreshPeriod, FileError |-> e_FileError,
            initialized |-> e_initialized, LastUpdate |-> e_LastUpdate,
            CurrentHash |-> e_CurrentHash, enrich |-> enrich,
            f1 |-> "none", f2 |-> "none"]
      ELSE IF update_db
      THEN IF f2 = "missing"
           THEN [RefreshPeriod |-> period, FileError |-> TRUE,
                 initialized |-> FALSE, LastUpdate |-> e_LastUpdate,
                 CurrentHash |-> hash, enrich |-> enrich,
                 f1 |-> f1, f2 |-> f2]
           ELSE [RefreshPeriod |-> period, FileError |-> FALSE,
                 initialized |-> TRUE, LastUpdate |-> t,
                 CurrentHash |-> hash, enrich |-> E_Parse(f2),
                 f1 |-> f1, f2 |-> f2]
      ELSE [RefreshPeriod |-> period, FileError |-> FALSE,
            initialized |-> TRUE, LastUpdate |-> t,
            CurrentHash |-> hash, enrich |-> enrich,
            f1 |-> f1, f2 |-> "none"]

\* The value of a map at a key, the empty map where the key is missing
E_At(map, key) == IF key \in DOMAIN map THEN map[key] ELSE Empty

\* metric.AddTag for every entry of a map of tags
E_AddTags(m, added) == [m EXCEPT !.tags = added @@ m.tags]

\* The loop over Level2TagKey
RECURSIVE E_Level2(_, _, _, _, _)
E_Level2(m, db1, CurrentTags, keys, k) ==
  IF k > Len(keys) THEN m
  ELSE LET Level2Tag == IF keys[k] \in DOMAIN CurrentTags
                        THEN CurrentTags[keys[k]] ELSE ""
       IN  E_Level2(E_AddTags(m, E_At(db1, Level2Tag)), db1, CurrentTags,
                    keys, k + 1)

\* The body of the loop over the measurements
E_Metric(cfg, db, m) ==
  LET CurrentTags == m.tags
      Level1Tag == IF cfg.Level1TagKey \in DOMAIN CurrentTags
                   THEN CurrentTags[cfg.Level1TagKey] ELSE ""
      db1 == E_At(db, Level1Tag)
      m1 == E_AddTags(m, E_At(db1, "LEVEL1TAGS"))
  IN  IF Level1Tag = "" THEN m
      ELSE IF cfg.TwoLevels
           THEN E_Level2(m1, db1, CurrentTags, cfg.Level2TagKey, 1)
           ELSE m1

\* The enrichment of a batch
E_Metrics(cfg, FileError, db, metrics) ==
  IF FileError THEN metrics
  ELSE [i \in DOMAIN metrics |-> E_Metric(cfg, db, metrics[i])]

InitEnrichment ==
  /\ enrich = EmptyDB
  /\ e_cfg \in E_Configs
  /\ e_RefreshPeriod \in E_Periods
  /\ e_initialized = FALSE
  /\ e_FileError = FALSE
  /\ e_LastUpdate = 0
  /\ e_CurrentHash = ""
  /\ e_in = <<>>
  /\ e_out = <<>>
  /\ e_f1 = "none"
  /\ e_f2 = "none"
  /\ e_pc = "idle"
  /\ e_old = EmptyDB
  /\ q_in = <<>>
  /\ q_out = <<>>
  /\ q_seen = EmptyDB
  /\ q_fatal = FALSE

\* Enrichment.Apply on a batch, called at time t, no other instance running
\* meanwhile
EnrichmentApply ==
  /\ plugin = "enrichment"
  /\ e_pc = "idle"
  /\ \E t \in Later(now) : \E f1, f2 \in E_Files :
     \E batch \in BatchesAt(E_Shapes, {0}) :
       LET r == E_Refresh(t, f1, f2)
       IN  /\ now' = t
           /\ e_RefreshPeriod' = r.RefreshPeriod
           /\ e_initialized' = r.initialized
           /\ e_FileError' = r.FileError
           /\ e_LastUpdate' = r.LastUpdate
           /\ e_CurrentHash' = r.CurrentHash
           /\ enrich' = r.enrich
           /\ e_f1' = r.f1
           /\ e_f2' = r.f2
           /\ e_in' = batch
           /\ e_out' = E_Metrics(e_cfg, r.FileError, r.enrich, batch)
  /\ UNCHANGED <<e_cfg, e_pc, e_old, q_in, q_out, q_seen, q_fatal>>

\* Enrichment.Apply of one instance while a second instance of the processor
\* runs in its own goroutine: the first instance up to the statement that
\* makes the mapping empty, on a refresh that reloads
ReloadBegin ==
  /\ plugin = "enrichment"
  /\ e_pc = "idle"
  /\ ~q_fatal
  /\ \E t \in Later(now) : \E f1, f2 \in E_Contents :
     \E batch \in BatchesAt(E_Shapes, {0}) :
       LET r == E_Refresh(t, f1, f2)
       IN  /\ r.f2 = f2
           /\ now' = t
           /\ e_RefreshPeriod' = r.RefreshPeriod
           /\ e_CurrentHash' = r.CurrentHash
           /\ e_old' = enrich
           /\ enrich' = EmptyDB
           /\ e_f1' = f1
           /\ e_f2' = f2
           /\ e_in' = batch
  /\ e_pc' = "unmarshal"
  /\ UNCHANGED <<e_cfg, e_initialized, e_FileError, e_LastUpdate, e_out,
                 q_in, q_out, q_seen, q_fatal>>

\* json.Unmarshal stores the next top key of the content in the mapping
ReloadStore ==
  /\ plugin = "enrichment"
  /\ e_pc = "unmarshal"
  /\ ~q_fatal
  /\ \E key \in DOMAIN E_Parse(e_f2) \ DOMAIN enrich :
       enrich' = (key :> E_Parse(e_f2)[key]) @@ enrich
  /\ UNCHANGED <<now, e_cfg, e_RefreshPeriod, e_initialized, e_FileError,
                 e_LastUpdate, e_CurrentHash, e_in, e_out, e_f1, e_f2, e_pc,
                 e_old, q_in, q_out, q_seen, q_fatal>>

\* json.Unmarshal returns and the first instance finishes its Apply
ReloadEnd ==
  /\ plugin = "enrichment"
  /\ e_pc = "unmarshal"
  /\ ~q_fatal
  /\ DOMAIN enrich = DOMAIN E_Parse(e_f2)
  /\ e_FileError' = FALSE
  /\ e_initialized' = TRUE
  /\ e_LastUpdate' = now
  /\ e_out' = E_Metrics(e_cfg, FALSE, enrich, e_in)
  /\ e_pc' = "idle"
  /\ UNCHANGED <<now, enrich, e_cfg, e_RefreshPeriod, e_CurrentHash, e_in,
                 e_f1, e_f2, e_old, q_in, q_out, q_seen, q_fatal>>

\* The enrichment loop of the second instance, which reads the mapping
\* while the first may be writing it: it reads the mapping as it stands, or
\* the runtime detects the concurrent map read and write and stops the
\* process
OtherApply ==
  /\ plugin = "enrichment"
  /\ ~q_fatal
  /\ \E batch \in BatchesAt(E_Shapes, {0}) :
       /\ q_in' = batch
       /\ q_seen' = enrich
       /\ \/ /\ q_fatal' = FALSE
             /\ q_out' = E_Metrics(e_cfg, FALSE, enrich, batch)
          \/ /\ e_pc = "unmarshal"
             /\ q_fatal' = TRUE
             /\ q_out' = <<>>
  /\ UNCHANGED <<now, enrich, e_cfg, e_RefreshPeriod, e_initialized,
                 e_FileError, e_LastUpdate, e_CurrentHash, e_in, e_out, e_f1,
                 e_f2, e_pc, e_old>>


----------------------------------------------------------------------------
(* The input plugins (plugins/inputs/gnmi/gnmi.go, netconf_junos)          *)

MaxRedial == 2    \* c.Redial is drawn from -1..MaxRedial
MaxAddr == 2      \* at most MaxAddr addresses
MaxCount == 2     \* the counts of calls are kept up to MaxCount

G_Addresses == {<<>>, <<"r1">>, <<"r1", "r2">>}
G_AddressLists == {a \in G_Addresses : Len(a) <= MaxAddr}

\* A count of calls, kept up to MaxCount
G_Count(n) == IF n < MaxCount THEN n + 1 ELSE n

\* A test that lets a redial of zero pass
G_RedialNegative(redial) == redial < 0

\* The test of c.Redial in Start
G_RedialRejected(redial) == redial <= 0

\* A worker goroutine: pc its position, err what subscribe returned (TRUE:
\* an error), timer the time since time.After was called, since the time
\* since its last dial, both kept up to MaxRedial, dialed whether it has
\* dialed, broken whether the transport of its session is broken
G_Worker(pc) ==
  [pc |-> pc, err |-> FALSE, timer |-> 0, since |-> 0, dialed |-> FALSE,
   broken |-> FALSE]

InitEngines ==
  /\ g_engine \in {"gnmi", "netconf"}
  /\ g_Redial \in -1..MaxRedial
  /\ g_Addresses \in G_AddressLists
  /\ g_started = "no"
  /\ g_cancelled = FALSE
  /\ g_wg = 0
  /\ g_stop = "no"
  /\ g_w = <<>>
  /\ g_dials = 0
  /\ g_errors = 0
  /\ g_metrics = 0

\* Start: the validation of the configuration, then one goroutine per
\* address; valid is whether the subscriptions and the TLS configuration of
\* the gnmi plugin are accepted
Start ==
  /\ g_started = "no"
  /\ \E valid \in BOOLEAN :
       IF (g_engine = "gnmi" /\ ~valid) \/ G_RedialRejected(g_Redial)
       THEN /\ g_started' = "error"
            /\ UNCHANGED <<g_wg, g_w>>
       ELSE /\ g_started' = "ok"
            /\ g_wg' = Len(g_Addresses)
            /\ g_w' = [i \in DOMAIN g_Addresses |-> G_Worker("test")]
  /\ UNCHANGED <<g_engine, g_Redial, g_Addresses, g_cancelled, g_stop,
                 g_dials, g_errors, g_metrics>>

\* for ctx.Err() == nil, the loop of the goroutine; wg.Done when it ends
WorkerTest(i) ==
  /\ g_w[i].pc = "test"
  /\ IF g_cancelled
     THEN /\ g_w' = [g_w EXCEPT ![i].pc = "done"]
          /\ g_wg' = g_wg - 1
     ELSE /\ g_w' = [g_w EXCEPT ![i].pc = "dial"]
          /\ UNCHANGED g_wg
  /\ UNCHANGED <<g_engine, g_Redial, g_Addresses, g_started, g_cancelled,
                 g_stop, g_dials, g_errors, g_metrics>>

\* subscribe up to its loop: the dial and the opening of the stream or the
\* session, which succeed or return an error
Dial(i) ==
  /\ g_w[i].pc = "dial"
  /\ \E ok \in BOOLEAN :
       g_w' = [g_w EXCEPT ![i] =
                 [pc |-> IF ok THEN "loop" ELSE "report", err |-> ~ok,
                  timer |-> 0, since |-> 0, dialed |-> TRUE,
                  broken |-> FALSE]]
  /\ g_dials' = G_Count(g_dials)
  /\ UNCHANGED <<g_engine, g_Redial, g_Addresses, g_started, g_cancelled,
                 g_wg, g_stop, g_errors, g_metrics>>

\* for ctx.Err() == nil, the loop of subscribe; it returns nil when the
\* context is cancelled
SessionTest(i) ==
  /\ g_w[i].pc = "loop"
  /\ g_w' = IF g_cancelled
            THEN [g_w EXCEPT ![i].pc = "report", ![i].err = FALSE]
            ELSE [g_w EXCEPT ![i].pc = "io"]
  /\ UNCHANGED <<g_engine, g_Redial, g_Addresses, g_started, g_cancelled,
                 g_wg, g_stop, g_dials, g_errors, g_metrics>>

\* gnmi: Recv returns a reply, which is handled
GnmiRecv(i) ==
  /\ g_engine = "gnmi"
  /\ g_w[i].pc = "io"
  /\ g_w' = [g_w EXCEPT ![i].pc = "loop"]
  /\ g_metrics' = G_Count(g_metrics)
  /\ UNCHANGED <<g_engine, g_Redial, g_Addresses, g_started, g_cancelled,
                 g_wg, g_stop, g_dials, g_errors>>

\* gnmi: Recv returns an error, io.EOF or another; subscribeGNMI returns
\* the error when it is not io.EOF and the context is not cancelled
GnmiRecvError(i) ==
  /\ g_engine = "gnmi"
  /\ g_w[i].pc = "io"
  /\ \E eof \in BOOLEAN :
       g_w' = [g_w EXCEPT ![i].pc = "report",
                          ![i].err = ~eof /\ ~g_cancelled]
  /\ UNCHANGED <<g_engine, g_Redial, g_Addresses, g_started, g_cancelled,
                 g_wg, g_stop, g_dials, g_errors, g_metrics>>

\* netconf: the transport of the session breaks
NetconfBreak(i) ==
  /\ g_engine = "netconf"
  /\ g_w[i].pc \in {"loop", "io"}
  /\ ~g_w[i].broken
  /\ g_w' = [g_w EXCEPT ![i].broken = TRUE]
  /\ UNCHANGED <<g_engine, g_Redial, g_Addresses, g_started, g_cancelled,
                 g_wg, g_stop, g_dials, g_errors, g_metrics>>

\* netconf: the RPCs that are due get their replies, the measurements are
\* added, and the loop goes on after the sleep
NetconfRpc(i) ==
  /\ g_engine = "netconf"
  /\ g_w[i].pc = "io"
  /\ ~g_w[i].broken
  /\ g_w' = [g_w EXCEPT ![i].pc = "loop"]
  /\ g_metrics' = G_Count(g_metrics)
  /\ UNCHANGED <<g_engine, g_Redial, g_Addresses, g_started, g_cancelled,
                 g_wg, g_stop, g_dials, g_errors>>

\* netconf: SyncRPC returns an error, no reply or an rpc-error: continue,
\* and the loop goes on after the sleep
NetconfRpcError(i) ==
  /\ g_engine = "netconf"
  /\ g_w[i].pc = "io"
  /\ g_w' = [g_w EXCEPT ![i].pc = "loop"]
  /\ UNCHANGED <<g_engine, g_Redial, g_Addresses, g_started, g_cancelled,
                 g_wg, g_stop, g_dials, g_errors, g_metrics>>

\* if err != nil && ctx.Err() == nil, after subscribe has returned
Report(i) ==
  /\ g_w[i].pc = "report"
  /\ g_w' = IF g_w[i].err /\ ~g_cancelled
            THEN [g_w EXCEPT ![i].pc = "adderror"]
            ELSE [g_w EXCEPT ![i].pc = "wait", ![i].timer = 0]
  /\ UNCHANGED <<g_engine, g_Redial, g_Addresses, g_started, g_cancelled,
                 g_wg, g_stop, g_dials, g_errors, g_metrics>>

\* acc.AddError(err)
AddError(i) ==
  /\ g_w[i].pc = "adderror"
  /\ g_w' = [g_w EXCEPT ![i].pc = "wait", ![i].timer = 0]
  /\ g_errors' = G_Count(g_errors)
  /\ UNCHANGED <<g_engine, g_Redial, g_Addresses, g_started, g_cancelled,
                 g_wg, g_stop, g_dials, g_metrics>>

\* A timer that fires at once
G_TimerAtOnce(timer, redial) == TRUE

\* time.After(c.Redial) delivers no earlier than redial after the call
G_TimerFired(timer, redial) == timer >= redial

\* select: case <-ctx.Done()
WaitDone(i) ==
  /\ g_w[i].pc = "wait"
  /\ g_cancelled
  /\ g_w' = [g_w EXCEPT ![i].pc = "test"]
  /\ UNCHANGED <<g_engine, g_Redial, g_Addresses, g_started, g_cancelled,
                 g_wg, g_stop, g_dials, g_errors, g_metrics>>

\* select: case <-time.After(c.Redial)
WaitTimer(i) ==
  /\ g_w[i].pc = "wait"
  /\ G_TimerFired(g_w[i].timer, g_Redial)
  /\ g_w' = [g_w EXCEPT ![i].pc = "test"]
  /\ UNCHANGED <<g_engine, g_Redial, g_Addresses, g_started, g_cancelled,
                 g_wg, g_stop, g_dials, g_errors, g_metrics>>

\* The clock advances by one tick
Tick ==
  /\ g_started = "ok"
  /\ \E i \in DOMAIN g_w :
       g_w[i].timer < MaxRedial \/ g_w[i].since < MaxRedial
  /\ g_w' = [i \in DOMAIN g_w |->
               [g_w[i] EXCEPT
                  !.timer = IF @ < MaxRedial THEN @ + 1 ELSE @,
                  !.since = IF @ < MaxRedial THEN @ + 1 ELSE @]]
  /\ UNCHANGED <<g_engine, g_Redial, g_Addresses, g_started, g_cancelled,
                 g_wg, g_stop, g_dials, g_errors, g_metrics>>

\* A Wait that returns whatever the counter
G_NotJoined(wg) == TRUE

\* wg.Wait returns when the counter is zero
G_Joined(wg) == wg = 0

\* Stop: c.cancel()
StopCancel ==
  /\ g_started # "no"
  /\ g_stop = "no"
  /\ g_cancelled' = TRUE
  /\ g_stop' = "waiting"
  /\ UNCHANGED <<g_engine, g_Redial, g_Addresses, g_started, g_wg, g_w,
                 g_dials, g_errors, g_metrics>>

\* Stop: c.wg.Wait() returns
StopReturn ==
  /\ g_stop = "waiting"
  /\ G_Joined(g_wg)
  /\ g_stop' = "returned"
  /\ UNCHANGED <<g_engine, g_Redial, g_Addresses, g_started, g_cancelled,
                 g_wg, g_w, g_dials, g_errors, g_metrics>>

----------------------------------------------------------------------------
(* The scheduling loop of netconf_junos (subscribeNETCONF)                 *)

MaxSubs == 2
MaxPasses == 3    \* n_passes counts the passes up to MaxPasses

\* min := uint64(100000), and time.Second and time.Millisecond, which are
\* counts of nanoseconds
N_MinStart == 100000
N_Second == 1000000000
N_Millisecond == 1000000

\* The durations of the model are multiples of 100 microseconds, and the
\* variables hold them as counts of that unit.  A counter is only ever
\* compared with an interval, and has only such durations added, so its
\* value rounded down to the unit decides as the value in nanoseconds does.
N_Unit == N_MinStart

\* The sample intervals of the model (r.interval): 0 s, 1 s and 2 s
N_Intervals == {k * (N_Second \div N_Unit) : k \in 0..2}

\* The requests of a session: one to MaxSubs subscriptions, their rpc
\* strings equal or not
N_Requests ==
  SeqsUpTo([rpc : {"a", "b"}, interval : N_Intervals], MaxSubs) \ {<<>>}

\* tick := (1000 + rand.Intn(10)) * time.Millisecond, for the least and the
\* greatest jitter
N_Ticks == {((1000 + j) * N_Millisecond) \div N_Unit : j \in {0, 9}}

\* The time an RPC takes, reply parsed: none to speak of, or two seconds
N_RpcTimes == {0, 2 * (N_Second \div N_Unit)}

minUint64(a, b) == IF a < b THEN a ELSE b

\* The loop that finds the minimum: it starts from 100000 nanoseconds
RECURSIVE N_Min(_, _, _)
N_Min(r, k, min) ==
  IF k > Len(r) THEN min
  ELSE N_Min(r, k + 1, minUint64(min, r[k].interval))

\* taskInterval := uint64(time.Duration((float64(min) / float64(len(r))) *
\* float64(time.Second))): the minimum, a count of nanoseconds, divided by
\* the number of requests and multiplied by 10^9
N_TaskInterval(r) ==
  (N_Min(r, 1, N_MinStart \div N_Unit) * N_Second) \div Len(r)

\* The loop counters[v.rpc] = uint64(i) * taskInterval, i from 0: of the
\* requests with the same rpc the last one sets the counter
N_Counters(r) ==
  [k \in {r[i].rpc : i \in DOMAIN r} |->
     LET last == CHOOSE i \in DOMAIN r :
                   r[i].rpc = k /\ \A j \in DOMAIN r : r[j].rpc = k => j <= i
     IN  (last - 1) * N_TaskInterval(r)]

\* A counter that is not below the greatest interval of the model passes
\* the test of every request, now and after any addition: the model stops
\* adding to it, which keeps the counters in a finite range over any
\* number of passes
N_Reached(counter) ==
  \A v \in N_Intervals : counter >= v

InitSched ==
  /\ n_r \in N_Requests
  /\ n_tick = 0
  /\ n_counters = Empty
  /\ n_pc = "start"
  /\ n_req = 0
  /\ n_spent = 0
  /\ n_cancelled = FALSE
  /\ n_first = <<>>
  /\ n_passes = 0
  /\ n_fired = {}
  /\ n_after = [i \in DOMAIN n_r |-> 0]

\* The session is open: the tick and the counters are set
SchedStart ==
  /\ n_pc = "start"
  /\ n_tick' \in N_Ticks
  /\ n_counters' = N_Counters(n_r)
  /\ n_first' = [i \in DOMAIN n_r |-> N_Counters(n_r)[n_r[i].rpc]]
  /\ n_pc' = "test"
  /\ UNCHANGED <<n_r, n_req, n_spent, n_cancelled, n_passes, n_fired, n_after>>

\* The loop test that goes on however the context is
N_ContinueAlways(cancelled) == TRUE

\* for ctx.Err() == nil
N_Continue(cancelled) == ~cancelled

\* The test of the loop: another pass, or return nil
SchedTest ==
  /\ n_pc = "test"
  /\ IF N_Continue(n_cancelled)
     THEN /\ n_pc' = "pass"
          /\ n_req' = 1
          /\ n_spent' = 0
          /\ n_passes' = IF n_passes < MaxPasses THEN n_passes + 1
                         ELSE n_passes
     ELSE /\ n_pc' = "done"
          /\ UNCHANGED <<n_req, n_spent, n_passes>>
  /\ UNCHANGED <<n_r, n_tick, n_counters, n_cancelled, n_first, n_fired,
                 n_after>>

\* The pass comes to a request that is not due
SchedSkip ==
  /\ n_pc = "pass"
  /\ n_req <= Len(n_r)
  /\ ~(n_counters[n_r[n_req].rpc] >= n_r[n_req].interval)
  /\ n_req' = n_req + 1
  /\ UNCHANGED <<n_r, n_tick, n_counters, n_pc, n_spent, n_cancelled,
                 n_first, n_passes, n_fired, n_after>>

\* The pass comes to a request that is due: its counter is reset and the
\* RPC is sent with session.SyncRPC
SchedRpc ==
  /\ n_pc = "pass"
  /\ n_req <= Len(n_r)
  /\ n_counters[n_r[n_req].rpc] >= n_r[n_req].interval
  /\ n_counters' = [n_counters EXCEPT ![n_r[n_req].rpc] = 0]
  /\ n_pc' = "rpc"
  /\ n_fired' = IF n_passes = 1 THEN n_fired \cup {n_req} ELSE n_fired
  /\ n_after' = IF n_cancelled
                THEN [n_after EXCEPT ![n_req] = G_Count(@)]
                ELSE n_after
  /\ UNCHANGED <<n_r, n_tick, n_req, n_spent, n_cancelled, n_first,
                 n_passes>>

\* SyncRPC returns, with an error or with a reply that is then parsed, and
\* the pass goes to the next request
SchedRpcDone ==
  /\ n_pc = "rpc"
  /\ \E d \in N_RpcTimes : n_spent' = n_spent + d
  /\ n_pc' = "pass"
  /\ n_req' = n_req + 1
  /\ UNCHANGED <<n_r, n_tick, n_counters, n_cancelled, n_first, n_passes,
                 n_fired, n_after>>

\* The end of a pass: the sleep of a tick if the pass took less, and delta
\* added to every counter (a counter that has reached every interval is
\* kept as it is, see N_Reached)
SchedSleep ==
  /\ n_pc = "pass"
  /\ n_req > Len(n_r)
  /\ LET delta == IF n_spent < n_tick THEN n_spent + n_tick ELSE n_spent
     IN  n_counters' = [k \in DOMAIN n_counters |->
                         IF N_Reached(n_counters[k]) THEN n_counters[k]
                         ELSE n_counters[k] + delta]
  /\ n_pc' = "test"
  /\ UNCHANGED <<n_r, n_tick, n_req, n_spent, n_cancelled, n_first,
                 n_passes, n_fired, n_after>>

\* Stop cancels the context
SchedCancel ==
  /\ n_pc # "start"
  /\ ~n_cancelled
  /\ n_cancelled' = TRUE
  /\ UNCHANGED <<n_r, n_tick, n_counters, n_pc, n_req, n_spent, n_first,
                 n_passes, n_fired, n_after>>

----------------------------------------------------------------------------
(* The parsing of an RPC reply in netconf_junos                            *)

MaxRows == 2
MaxLeaves == 2

\* An element of a configured path, strings.Split(xpath, "/") done: a node
\* name, with the attribute between brackets or "" for none
T_Elem(node, attribut) == [node |-> node, attribut |-> attribut]

\* The fields of the subscription of the model:
\*   /a/b[name]/speed:int, /a/b[name]/descr:string and, with no key in its
\*   path, /a/uptime:int
T_Fields ==
  <<[path |-> <<T_Elem("a", ""), T_Elem("b", "name"), T_Elem("speed", "")>>,
     fieldType |-> "int"],
    [path |-> <<T_Elem("a", ""), T_Elem("b", "name"), T_Elem("descr", "")>>,
     fieldType |-> "string"],
    [path |-> <<T_Elem("a", ""), T_Elem("uptime", "")>>,
     fieldType |-> "int"]>>

\* The address of the device and the name of the subscription
T_Address == "r1"
T_Measurement == "ifd"

\* The loop over split_xpath, from element k.  acc = [xpath, shortName,
\* parent, tags, keys]: xpath with its trailing "/", keys the records
\* [parent, key, shortName] of the attributes met
RECURSIVE T_Walk(_, _, _)
T_Walk(path, k, acc) ==
  IF k > Len(path) THEN acc
  ELSE LET e == path[k]
           xpath == acc.xpath \o e.node \o "/"
       IN  IF e.attribut # ""
           THEN T_Walk(path, k + 1,
                  [acc EXCEPT !.parent = acc.xpath \o e.node,
                              !.xpath = xpath,
                              !.tags = Append(@, xpath \o e.attribut),
                              !.keys = Append(@, [parent |-> acc.xpath \o e.node,
                                                  key |-> xpath \o e.attribut,
                                                  shortName |-> e.attribut])])
           ELSE T_Walk(path, k + 1,
                  [acc EXCEPT !.xpath = xpath, !.shortName = e.node])

\* A configured path walked from its leading "/".  The xpath of the field
\* is acc.xpath without its trailing "/": the last element is a plain node,
\* so that is the xpath before it, and its name
T_Parsed(f) ==
  LET acc == T_Walk(f.path, 1, [xpath |-> "/", shortName |-> "", parent |-> "",
                                tags |-> <<>>, keys |-> <<>>])
      init == T_Walk(SubSeq(f.path, 1, Len(f.path) - 1), 1,
                     [xpath |-> "/", shortName |-> "", parent |-> "",
                      tags |-> <<>>, keys |-> <<>>])
  IN  [xpath |-> init.xpath \o f.path[Len(f.path)].node,
       shortName |-> acc.shortName, fieldType |-> f.fieldType,
       parent |-> acc.parent, tags |-> acc.tags, keys |-> acc.keys]

\* append(list, e) unless e is in the list
T_AppendNew(list, e) ==
  IF \E i \in DOMAIN list : list[i] = e THEN list ELSE Append(list, e)

\* parents[s.Rpc] after the fields up to k: parent -> its children, the
\* keys met first and the field last
RECURSIVE T_Parents(_, _, _)
T_Parents(fields, k, parents) ==
  IF k > Len(fields) THEN parents
  ELSE LET f == T_Parsed(fields[k])
           add(ps, parent, child) ==
             IF parent \in DOMAIN ps
             THEN [ps EXCEPT ![parent] = T_AppendNew(@, child)]
             ELSE (parent :> <<child>>) @@ ps
           keyed[j \in 0..Len(f.keys)] ==
             IF j = 0 THEN parents
             ELSE add(keyed[j - 1], f.keys[j].parent, f.keys[j].key)
       IN  T_Parents(fields, k + 1, add(keyed[Len(f.keys)], f.parent, f.xpath))

allParents == T_Parents(T_Fields, 1, Empty)

\* metricToSend[req.rpc] and tagTable[req.rpc] as the session starts
T_MetricToSend ==
  [x \in {T_Parsed(T_Fields[k]).xpath : k \in DOMAIN T_Fields} |->
     LET f == T_Parsed(T_Fields[CHOOSE k \in DOMAIN T_Fields :
                                  T_Parsed(T_Fields[k]).xpath = x])
     IN  [shortName |-> f.shortName, fieldType |-> f.fieldType,
          currentValue |-> StrV(""), visited |-> FALSE, tags |-> f.tags,
          row |-> 0]]

T_TagTable ==
  LET keys == UNION {{T_Parsed(T_Fields[k]).keys[j] :
                        j \in DOMAIN T_Parsed(T_Fields[k]).keys} :
                     k \in DOMAIN T_Fields}
  IN  [x \in {e.key : e \in keys} |->
         [shortName |-> (CHOOSE e \in keys : e.key = x).shortName,
          currentValue |-> "", visited |-> FALSE, row |-> 0]]

\* The xpath rebuilt at an end tag: "/" and the names joined by "/"
RECURSIVE T_Join(_, _)
T_Join(xpath, k) ==
  IF k > Len(xpath) THEN ""
  ELSE "/" \o xpath[k] \o T_Join(xpath, k + 1)

\* The character data of the model, and what
\* strings.TrimSpace(strings.ReplaceAll(s, "\n", "")) makes of them
T_Texts == {"7", " ge0\n", "\n  "}

T_Trim(s) ==
  CASE s = " ge0\n" -> "ge0"
    [] s = "\n  " -> ""
    [] OTHER -> s

\* strconv.Atoi and strconv.ParseFloat on the values of the model: <<n>>,
\* or <<>> for an error
T_Atoi(s) == IF s = "7" THEN <<7>> ELSE <<>>

\* The value a field takes from the character data, by its type; of the
\* values of the model none is a date of the layout of epoch
T_Coerce(fieldType, value) ==
  CASE fieldType = "int" ->
         IF T_Atoi(value) # <<>> THEN IntV(T_Atoi(value)[1]) ELSE StrV(value)
    [] fieldType = "float" ->
         IF T_Atoi(value) # <<>> THEN FloatV(T_Atoi(value)[1], 1)
         ELSE StrV(value)
    [] OTHER -> StrV(value)

\* The tags of the measurement of a field: device, and the visited tags of
\* its list under their short names
RECURSIVE T_MedTags(_, _, _, _)
T_MedTags(tagTable, tags, k, medTags) ==
  IF k > Len(tags) THEN medTags
  ELSE LET z == tags[k]
       IN  IF z \in DOMAIN tagTable /\ tagTable[z].visited
           THEN T_MedTags(tagTable, tags, k + 1,
                          (tagTable[z].shortName :> tagTable[z].currentValue)
                            @@ medTags)
           ELSE T_MedTags(tagTable, tags, k + 1, medTags)

\* The first loop over the children of a parent: a call of grouper.Add for
\* every visited field
RECURSIVE T_Emit(_, _, _, _, _, _)
T_Emit(pval, k, metricToSend, tagTable, row, grouper) ==
  IF k > Len(pval) THEN grouper
  ELSE LET f == pval[k]
       IN  IF f \in DOMAIN metricToSend /\ metricToSend[f].visited
           THEN LET med == metricToSend[f]
                    read == {z \in Range(med.tags) :
                               z \in DOMAIN tagTable /\ tagTable[z].visited}
                IN  T_Emit(pval, k + 1, metricToSend, tagTable, row,
                      Append(grouper,
                        [measurement |-> T_Measurement,
                         tags |-> T_MedTags(tagTable, med.tags, 1,
                                            "device" :> T_Address),
                         field |-> med.shortName,
                         value |-> med.currentValue,
                         xpath |-> f,
                         row |-> row,
                         from |-> {med.row} \cup {tagTable[z].row : z \in read}]))
           ELSE T_Emit(pval, k + 1, metricToSend, tagTable, row, grouper)

\* The second loop left out: nothing is reset
T_KeepVisited(pval, table, empty) == table

\* The second loop over the children of a parent, on one of the two tables:
\* the entries of the children are reset
T_Reset(pval, table, empty) ==
  [x \in DOMAIN table |->
     IF x \in Range(pval)
     THEN [table[x] EXCEPT !.currentValue = empty, !.visited = FALSE]
     ELSE table[x]]

InitReply ==
  /\ t_xpath = <<>>
  /\ t_value = ""
  /\ t_metricToSend = T_MetricToSend
  /\ t_tagTable = T_TagTable
  /\ t_grouper = <<>>
  /\ t_row = 0
  /\ t_leaves = 0
  /\ t_last = ""

\* The names an element of the reply can have inside the open elements: the
\* reply is <a> with, first, an element uptime or none, and then up to
\* MaxRows elements <b>, each with up to MaxLeaves elements name, speed or
\* descr
T_Children ==
  CASE t_xpath = <<>> -> IF t_last = "" THEN {"a"} ELSE {}
    [] t_xpath = <<"a">> ->
         (IF t_row < MaxRows THEN {"b"} ELSE {})
           \cup (IF t_last = "start" THEN {"uptime"} ELSE {})
    [] t_xpath = <<"a", "b">> ->
         IF t_leaves < MaxLeaves THEN {"name", "speed", "descr"} ELSE {}
    [] OTHER -> {}

\* The next reply of the RPC is there: a new grouper, xpath and value; the
\* two tables are those of the session (the row of the last visit, which
\* the code does not keep, starts again)
ReplyBegin ==
  /\ t_last = "eof"
  /\ t_xpath' = <<>>
  /\ t_value' = ""
  /\ t_grouper' = <<>>
  /\ t_metricToSend' = [x \in DOMAIN t_metricToSend |->
                          [t_metricToSend[x] EXCEPT !.row = 0]]
  /\ t_tagTable' = [x \in DOMAIN t_tagTable |->
                      [t_tagTable[x] EXCEPT !.row = 0]]
  /\ t_row' = 0
  /\ t_leaves' = 0
  /\ t_last' = ""

\* decoder.Token() gives a start tag: the name is appended to xpath
TokenStart ==
  /\ t_last # "eof"
  /\ \E name \in T_Children : t_xpath' = Append(t_xpath, name)
  /\ t_leaves' = IF t_xpath = <<"a", "b">> THEN t_leaves + 1 ELSE t_leaves
  /\ t_last' = "start"
  /\ UNCHANGED <<t_value, t_metricToSend, t_tagTable, t_grouper, t_row>>

\* decoder.Token() gives character data
TokenCharData ==
  /\ t_xpath # <<>>
  /\ t_last \in {"start", "end"}
  /\ \E s \in T_Texts : t_value' = T_Trim(s)
  /\ t_last' = "chardata"
  /\ UNCHANGED <<t_xpath, t_metricToSend, t_tagTable, t_grouper, t_row,
                 t_leaves>>

\* decoder.Token() gives an end tag: of a parent, of a tag or of a field
TokenEnd ==
  /\ t_xpath # <<>>
  /\ LET s == T_Join(t_xpath, 1)
     IN  IF s \in DOMAIN allParents
         THEN /\ t_grouper' = T_Emit(allParents[s], 1, t_metricToSend,
                                     t_tagTable, t_row + 1, t_grouper)
              /\ t_metricToSend' = T_Reset(allParents[s], t_metricToSend,
                                           StrV(""))
              /\ t_tagTable' = T_Reset(allParents[s], t_tagTable, "")
              /\ t_row' = t_row + 1
              /\ t_leaves' = 0
         ELSE /\ IF s \in DOMAIN t_tagTable
                 THEN /\ t_tagTable' =
                           [t_tagTable EXCEPT ![s].currentValue = t_value,
                                              ![s].visited = TRUE,
                                              ![s].row = t_row + 1]
                      /\ UNCHANGED t_metricToSend
                 ELSE /\ IF s \in DOMAIN t_metricToSend
                         THEN t_metricToSend' =
                                [t_metricToSend EXCEPT
                                   ![s].currentValue =
                                      T_Coerce(t_metricToSend[s].fieldType,
                                               t_value),
                                   ![s].visited = TRUE,
                                   ![s].row = t_row + 1]
                         ELSE UNCHANGED t_metricToSend
                      /\ UNCHANGED t_tagTable
              /\ UNCHANGED <<t_grouper, t_row, t_leaves>>
  /\ t_xpath' = SubSeq(t_xpath, 1, Len(t_xpath) - 1)
  /\ t_last' = "end"
  /\ UNCHANGED t_value

\* decoder.Token() gives an error at the end of the reply: the loop ends
TokenEOF ==
  /\ t_xpath = <<>>
  /\ t_last = "end"
  /\ t_last' = "eof"
  /\ UNCHANGED <<t_xpath, t_value, t_metricToSend, t_tagTable, t_grouper,
                 t_row, t_leaves>>

----------------------------------------------------------------------------
(* The paths of gnmi (parsePath, handlePath)                               *)

MaxLen == 5
MaxElems == 2
MaxKeys == 2

\* The strings of up to n characters of an alphabet
RECURSIVE P_Strings(_, _)
P_Strings(alphabet, n) ==
  IF n = 0 THEN {""}
  ELSE LET S == P_Strings(alphabet, n - 1)
       IN  S \cup {s \o c : s \in S, c \in alphabet}

\* The paths given to parsePath as they come: any string of "/", "[", "]",
\* "=" and a letter
P_Raw == P_Strings({"/", "[", "]", "=", "a"}, MaxLen)

\* The paths given to parsePath that are written from elements: a name and
\* up to MaxKeys predicates of different keys, the value plain, between
\* quotes, or with a "/"
P_Preds ==
  {q \in SeqsUpTo([key : {"k", "n"}, val : {"v", "'v'", "x/y"}], MaxKeys) :
     \A i, j \in DOMAIN q : q[i].key = q[j].key => i = j}

P_Written == SeqsUpTo([Name : {"a", "b"}, Preds : P_Preds], MaxElems) \ {<<>>}

RECURSIVE P_PredText(_, _)
P_PredText(q, k) ==
  IF k > Len(q) THEN ""
  ELSE "[" \o q[k].key \o "=" \o q[k].val \o "]" \o P_PredText(q, k + 1)

RECURSIVE P_Text(_, _)
P_Text(w, k) ==
  IF k > Len(w) THEN ""
  ELSE "/" \o w[k].Name \o P_PredText(w[k].Preds, 1) \o P_Text(w, k + 1)

\* pathToParse[i] and pathToParse[a:b], the indices from 0
P_Char(s, i) == SubSeq(s, i + 1, i + 1)
P_Slice(s, a, b) == SubSeq(s, a + 1, b)

\* A value left as it is written
P_KeepQuotes(s) == s

\* strings.Trim(s, "'\""): the quotes at both ends are cut
RECURSIVE P_Trim(_)
P_Trim(s) ==
  IF s = "" THEN s
  ELSE IF P_Char(s, 0) \in {"'", "\""} THEN P_Trim(P_Slice(s, 1, Len(s)))
  ELSE IF P_Char(s, Len(s) - 1) \in {"'", "\""}
  THEN P_Trim(P_Slice(s, 0, Len(s) - 1))
  ELSE s

\* The loop of parsePath over pathToParse + "/", from index i.
\* st = [start, name, value, end, Key, Elem]: Key the keys of the element
\* in progress, Elem the elements appended.  A break ends the loop with the
\* state as it is.
RECURSIVE P_Loop(_, _, _)
P_Loop(s, i, st) ==
  IF ~(i < Len(s)) THEN st
  ELSE LET c == P_Char(s, i)
       IN  CASE c = "[" ->
                  IF st.name >= 0 THEN st
                  ELSE P_Loop(s, i + 1,
                         [st EXCEPT !.end = IF st.end < 0 THEN i ELSE @,
                                    !.Key = IF st.end < 0 THEN Empty ELSE @,
                                    !.name = i + 1])
             [] c = "=" ->
                  IF st.name <= 0 \/ st.value >= 0 THEN st
                  ELSE P_Loop(s, i + 1, [st EXCEPT !.value = i + 1])
             [] c = "]" ->
                  IF st.name <= 0 \/ st.value <= st.name THEN st
                  ELSE P_Loop(s, i + 1,
                         [st EXCEPT
                            !.Key = (P_Slice(s, st.name, st.value - 1)
                                       :> P_Trim(P_Slice(s, st.value, i)))
                                    @@ @,
                            !.name = -1, !.value = -1])
             [] c = "/" ->
                  IF st.name < 0
                  THEN LET end == IF st.end < 0 THEN i ELSE st.end
                       IN  P_Loop(s, i + 1,
                             [start |-> i + 1, name |-> -1, value |-> -1,
                              end |-> -1, Key |-> Empty,
                              Elem |-> IF end > st.start
                                       THEN Append(st.Elem,
                                              [Name |-> P_Slice(s, st.start, end),
                                               Key |-> st.Key])
                                       ELSE st.Elem])
                  ELSE P_Loop(s, i + 1, st)
             [] OTHER -> P_Loop(s, i + 1, st)

\* parsePath(origin, pathToParse, ""): [err, Origin, Elem], Elem empty when
\* err is set (the path returned is nil)
parsePath(origin, pathToParse) ==
  IF Len(pathToParse) > 0 /\ P_Char(pathToParse, 0) # "/"
  THEN [err |-> TRUE, Origin |-> origin, Elem |-> <<>>]
  ELSE LET st == P_Loop(pathToParse \o "/", 0,
                        [start |-> 0, name |-> -1, value |-> -1, end |-> -1,
                         Key |-> Empty, Elem |-> <<>>])
       IN  IF st.name >= 0 \/ st.value >= 0
           THEN [err |-> TRUE, Origin |-> origin, Elem |-> <<>>]
           ELSE [err |-> FALSE, Origin |-> origin, Elem |-> st.Elem]

\* The loop of handlePath over the keys of an element, which has at most
\* one key where tags are kept
H_Keys(LongTag, name, Key, tags) ==
  IF DOMAIN Key = {} THEN tags
  ELSE LET key == CHOOSE k \in DOMAIN Key : TRUE
       IN  IF LongTag \/ key \in DOMAIN tags
           THEN ((name \o "/" \o key) :> Key[key]) @@ tags
           ELSE (key :> Key[key]) @@ tags

\* The alias path that stays with the first name registered
H_FirstAlias(aliases, name, aliasPath) ==
  IF aliasPath = "" /\ name \in DOMAIN aliases THEN name ELSE aliasPath

\* The alias path after an element: the name built so far if it is
\* registered
H_Alias(aliases, name, aliasPath) ==
  IF name \in DOMAIN aliases THEN name ELSE aliasPath

\* The loop of handlePath over the elements, from element k.
\* acc = [builder, aliasPath, tags]; tags is kept if keep is set (tags is
\* not nil)
RECURSIVE H_Elems(_, _, _, _, _, _)
H_Elems(aliases, LongTag, Elem, k, keep, acc) ==
  IF k > Len(Elem) THEN acc
  ELSE LET name == IF Len(Elem[k].Name) > 0
                   THEN acc.builder \o "/" \o Elem[k].Name
                   ELSE acc.builder
       IN  H_Elems(aliases, LongTag, Elem, k + 1, keep,
             [builder |-> name,
              aliasPath |-> H_Alias(aliases, name, acc.aliasPath),
              tags |-> IF keep
                       THEN H_Keys(LongTag, name, Elem[k].Key, acc.tags)
                       ELSE acc.tags])

\* handlePath(gnmiPath, tags, prefix): [pathBuffer, aliasPath, tags]
handlePath(aliases, LongTag, gnmiPath, keep, tags, prefix) ==
  LET builder == IF Len(gnmiPath.Origin) > 0
                 THEN prefix \o gnmiPath.Origin \o ":"
                 ELSE prefix
      acc == H_Elems(aliases, LongTag, gnmiPath.Elem, 1, keep,
                     [builder |-> builder, aliasPath |-> "", tags |-> tags])
  IN  [pathBuffer |-> acc.builder, aliasPath |-> acc.aliasPath,
       tags |-> acc.tags]

InitPath ==
  /\ \/ p_in \in P_Raw /\ p_w = <<>>
     \/ p_w \in P_Written /\ p_in = P_Text(p_w, 1)
  /\ p_out = <<>>
  /\ p_buf = <<>>

\* parsePath("", subscription.Path, "") as Start calls it
ParsePath ==
  /\ p_out = <<>>
  /\ p_in # "idle"
  /\ p_out' = parsePath("", p_in)
  /\ UNCHANGED <<p_in, p_w, p_buf>>

\* handlePath(gnmiShortPath, nil, "") as Start calls it on a path parsed
HandlePath ==
  /\ p_out # <<>>
  /\ ~p_out.err
  /\ p_buf = <<>>
  /\ p_buf' = handlePath(Empty, FALSE, p_out, FALSE, Empty, "")
  /\ UNCHANGED <<p_in, p_w, p_out>>

----------------------------------------------------------------------------
(* The receive loop of gnmi and the handling of a response                 *)

MaxUpdates == 2

\* The address of the device
U_Address == "r1:32767"

\* The paths that can have an alias, and the alias tables of the model:
\* each of them registered or not, under a name of its own
U_AliasPaths == {"/a", "/a/b", "/a/b/c", "/b"}

U_Aliases == {[p \in S |-> "alias" \o p] : S \in SUBSET U_AliasPaths}

U_Configs ==
  [internalAliases : U_Aliases, LongTag : BOOLEAN, LongField : BOOLEAN]

\* The paths of the model: the prefix /a, and the update paths b[name=ge0],
\* b[name=ge0]/c and the path of no element
U_Path(Elem) == [Origin |-> "", Elem |-> Elem]

U_Prefixes == {U_Path(<<[Name |-> "a", Key |-> Empty]>>)}

U_UpdatePaths ==
  {U_Path(<<>>),
   U_Path(<<[Name |-> "b", Key |-> ("name" :> "ge0")]>>),
   U_Path(<<[Name |-> "b", Key |-> ("name" :> "ge0")],
            [Name |-> "c", Key |-> Empty]>>)}

\* The values of an update: none, a string, JSON that is an object with the
\* member x, and JSON that does not parse
U_Vals == {"nil", "string", "json", "badjson"}

\* The responses: an update with or without prefix and one to MaxUpdates
\* updates, an error, and a sync_response
U_Replies ==
  {[kind |-> "update", Prefix |-> p, Update |-> u] :
     p \in {<<>>} \cup {<<x>> : x \in U_Prefixes},
     u \in SeqsUpTo([Path : U_UpdatePaths, Val : U_Vals], MaxUpdates) \ {<<>>}}
  \cup {[kind |-> k, Prefix |-> <<>>, Update |-> <<>>] : k \in {"error", "sync"}}

\* net.SplitHostPort(address): the host is what stands before the last ":"
RECURSIVE U_Host(_)
U_Host(address) ==
  IF address = "" THEN ""
  ELSE IF P_Char(address, Len(address) - 1) = ":"
  THEN P_Slice(address, 0, Len(address) - 1)
  ELSE U_Host(P_Slice(address, 0, Len(address) - 1))

\* handleTelemetryField(update, tags, prefix): [aliasPath, tags, fields,
\* errors]; fields is the map of the keys to the values, of one key at most
handleTelemetryField(cfg, update, tags, prefix) ==
  LET h == handlePath(cfg.internalAliases, cfg.LongTag, update.Path, TRUE,
                      tags, prefix)
      gpath == h.pathBuffer
      fields ==
        CASE update.Val = "string" -> (gpath :> StrV("up"))
          [] update.Val = "json" ->
               ((IF gpath = "" THEN "x" ELSE gpath \o "_x") :> IntV(1))
          [] OTHER -> Empty
  IN  [aliasPath |-> h.aliasPath, tags |-> h.tags, fields |-> fields,
       errors |-> IF update.Val = "badjson" THEN 1 ELSE 0]

\* path.Base(key): the last element of the path, "." for the empty path
\* and "/" for a path of slashes only
RECURSIVE U_Base(_)
U_Base(key) ==
  LET RECURSIVE NoSlashAtEnd(_)
      NoSlashAtEnd(s) ==
        IF Len(s) > 0 /\ P_Char(s, Len(s) - 1) = "/"
        THEN NoSlashAtEnd(P_Slice(s, 0, Len(s) - 1))
        ELSE s
      RECURSIVE AfterLastSlash(_, _)
      AfterLastSlash(s, i) ==
        IF i < 0 THEN s
        ELSE IF P_Char(s, i) = "/" THEN P_Slice(s, i + 1, Len(s))
        ELSE AfterLastSlash(s, i - 1)
  IN  IF key = "" THEN "."
      ELSE LET s == NoSlashAtEnd(key)
           IN  IF s = "" THEN "/" ELSE AfterLastSlash(s, Len(s) - 1)

\* strings.TrimLeft(key, "/.")
RECURSIVE U_TrimLeft(_)
U_TrimLeft(key) ==
  IF Len(key) > 0 /\ P_Char(key, 0) \in {"/", "."}
  THEN U_TrimLeft(P_Slice(key, 1, Len(key)))
  ELSE key

\* The field key that is the last element whenever the alias path is not
\* shorter than the key and not empty
U_FieldKeyOrBase(aliasPath, k) ==
  IF Len(aliasPath) < Len(k) /\ Len(aliasPath) # 0
  THEN <<P_Slice(k, Len(aliasPath) + 1, Len(k))>>
  ELSE IF U_TrimLeft(U_Base(k)) = "" THEN <<>> ELSE <<U_TrimLeft(U_Base(k))>>

\* The field key made of the key k of a field: <<key>>, or <<>> when the
\* field is skipped
U_FieldKey(aliasPath, k) ==
  IF Len(aliasPath) < Len(k) /\ Len(aliasPath) # 0
  THEN <<P_Slice(k, Len(aliasPath) + 1, Len(k))>>
  ELSE IF Len(aliasPath) >= Len(k)
  THEN IF U_TrimLeft(U_Base(k)) = "" THEN <<>> ELSE <<U_TrimLeft(U_Base(k))>>
  ELSE <<k>>



\* The measurement name of an update: looked up if the alias path is not
\* the one of the update before
U_Name(aliases, prefix, aliasPath, lastAliasPath, name) ==
  IF aliasPath # lastAliasPath
  THEN IF aliasPath \in DOMAIN aliases THEN aliases[aliasPath] ELSE prefix
  ELSE name

\* The loop of handleSubscribeResponseUpdate over the updates, from update
\* i.  acc = [name, lastAliasPath, adds, errors]
RECURSIVE U_Updates(_, _, _, _, _, _, _)
U_Updates(cfg, updates, i, prefixTags, prefix, prefixAliasPath, acc) ==
  IF i > Len(updates) THEN acc
  ELSE LET t == handleTelemetryField(cfg, updates[i], prefixTags, prefix)
           aliasPath == IF Len(prefixAliasPath) > 0 /\ Len(t.aliasPath) = 0
                        THEN prefixAliasPath ELSE t.aliasPath
           name == U_Name(cfg.internalAliases, prefix, aliasPath,
                          acc.lastAliasPath, acc.name)
           adds == {[update |-> i, name |-> name, tags |-> t.tags,
                     key |-> IF cfg.LongField THEN k
                             ELSE U_FieldKey(aliasPath, k)[1],
                     longKey |-> k, aliasPath |-> aliasPath] :
                      k \in {x \in DOMAIN t.fields :
                               U_FieldKey(aliasPath, x) # <<>>}}
       IN  U_Updates(cfg, updates, i + 1, prefixTags, prefix, prefixAliasPath,
                     [name |-> name, lastAliasPath |-> aliasPath,
                      adds |-> acc.adds \cup adds,
                      errors |-> acc.errors + t.errors])

\* handleSubscribeResponse(address, reply): [adds, errors].  An update is
\* handled by handleSubscribeResponseUpdate, an error is logged, and any
\* other response is passed over
handleSubscribeResponse(cfg, address, reply) ==
  IF reply.kind # "update" THEN [adds |-> {}, errors |-> 0]
  ELSE LET p == IF reply.Prefix # <<>>
                THEN handlePath(cfg.internalAliases, cfg.LongTag,
                                reply.Prefix[1], TRUE, Empty, "")
                ELSE [pathBuffer |-> "", aliasPath |-> "", tags |-> Empty]
           prefixTags == ("path" :> p.pathBuffer)
                         @@ ("device" :> U_Host(address)) @@ p.tags
           r == U_Updates(cfg, reply.Update, 1, prefixTags, p.pathBuffer,
                          p.aliasPath,
                          [name |-> "", lastAliasPath |-> "", adds |-> {},
                           errors |-> 0])
       IN  [adds |-> r.adds, errors |-> r.errors]

InitUpdate ==
  /\ u_cfg \in U_Configs
  /\ u_pc = "test"
  /\ u_cancelled = FALSE
  /\ u_why = ""
  /\ u_reply = <<>>
  /\ u_adds = {}
  /\ u_errors = 0

\* The test of the receive loop: for ctx.Err() == nil.  The reply in hand
\* is done with
RecvTest ==
  /\ u_pc = "test"
  /\ u_pc' = IF u_cancelled THEN "ended" ELSE "recv"
  /\ u_why' = IF u_cancelled THEN "cancel" ELSE u_why
  /\ u_reply' = <<>>
  /\ u_adds' = {}
  /\ u_errors' = 0
  /\ UNCHANGED <<u_cfg, u_cancelled>>

\* A loop that ends when the handling of a response has met a failure
U_EndOnFailure(failed) == IF failed THEN "ended" ELSE "test"

\* After handleSubscribeResponse, which returns nothing, the loop goes on
U_GoOn(failed) == "test"

\* Whether the handling of a response meets a failure: a response of kind
\* error, an update without value, or JSON that does not parse
U_Failed(reply) ==
  \/ reply.kind = "error"
  \/ \E i \in DOMAIN reply.Update : reply.Update[i].Val \in {"nil", "badjson"}

\* Recv gives a response, which is handled
RecvReply ==
  /\ u_pc = "recv"
  /\ \E reply \in U_Replies :
       LET r == handleSubscribeResponse(u_cfg, U_Address, reply)
       IN  /\ u_reply' = reply
           /\ u_adds' = r.adds
           /\ u_errors' = r.errors
           /\ u_pc' = U_GoOn(U_Failed(reply))
  /\ UNCHANGED <<u_cfg, u_cancelled, u_why>>

\* Recv gives an error: the loop ends, with or without an error returned
RecvError ==
  /\ u_pc = "recv"
  /\ u_pc' = "ended"
  /\ u_why' = "recv"
  /\ UNCHANGED <<u_cfg, u_cancelled, u_reply, u_adds, u_errors>>

\* Stop cancels the context
RecvCancel ==
  /\ u_pc \in {"test", "recv"}
  /\ ~u_cancelled
  /\ u_cancelled' = TRUE
  /\ UNCHANGED <<u_cfg, u_pc, u_why, u_reply, u_adds, u_errors>>

----------------------------------------------------------------------------
(* Two instances of Enrichment in one process (enrichment.go)              *)

\* The file of each instance: EnrichFilePath of instance 1 holds content A,
\* that of instance 2 content B
EP_Files == <<"A", "B">>

\* The refresh of Apply of an instance with the fields p, called at time t
\* with the package mapping db, the first os.Open finding f1 and the second
\* f2: the fields of the instance and the package mapping after it
EP_Refresh(p, db, t, f1, f2) ==
  LET delta == t - p.LastUpdate
      due == ~p.initialized \/ delta >= p.RefreshPeriod
      period == IF p.RefreshPeriod <= 0 THEN E_DefaultRefresh
                ELSE p.RefreshPeriod
      opened == f1 # "missing"
      update_db == opened /\ E_UpdateDb(E_MD5(f1), p.CurrentHash)
      hash == IF update_db THEN E_MD5(f1) ELSE p.CurrentHash
  IN  IF ~due THEN [p |-> p, enrich |-> db]
      ELSE IF ~opened
      THEN [p |-> [p EXCEPT !.RefreshPeriod = period, !.FileError = FALSE,
                            !.initialized = TRUE, !.LastUpdate = t],
            enrich |-> db]
      ELSE IF update_db
      THEN IF f2 = "missing"
           THEN [p |-> [p EXCEPT !.RefreshPeriod = period, !.FileError = TRUE,
                                 !.initialized = FALSE, !.CurrentHash = hash],
                 enrich |-> db]
           ELSE [p |-> [p EXCEPT !.RefreshPeriod = period, !.FileError = FALSE,
                                 !.initialized = TRUE, !.LastUpdate = t,
                                 !.CurrentHash = hash],
                 enrich |-> E_Parse(f2)]
      ELSE [p |-> [p EXCEPT !.RefreshPeriod = period, !.FileError = FALSE,
                            !.initialized = TRUE, !.LastUpdate = t],
            enrich |-> db]

InitPair ==
  /\ ep_cfg \in E_Configs
  /\ ep_enrich = EmptyDB
  /\ ep_inst \in [1..2 -> [RefreshPeriod : E_Periods, initialized : {FALSE},
                           FileError : {FALSE}, LastUpdate : {0},
                           CurrentHash : {""}]]
  /\ ep_who = 0
  /\ ep_in = <<>>
  /\ ep_out = <<>>

\* Enrichment.Apply of instance k on a batch, called at time t; its file is
\* there or missing at each os.Open
PairApply ==
  /\ plugin = "pair"
  /\ \E k \in 1..2 : \E t \in Later(now) :
     \E f1, f2 \in {EP_Files[k], "missing"} :
     \E batch \in BatchesAt(E_Shapes, {0}) :
       LET r == EP_Refresh(ep_inst[k], ep_enrich, t, f1, f2)
       IN  /\ now' = t
           /\ ep_inst' = [ep_inst EXCEPT ![k] = r.p]
           /\ ep_enrich' = r.enrich
           /\ ep_who' = k
           /\ ep_in' = batch
           /\ ep_out' = E_Metrics(ep_cfg, r.p.FileError, r.enrich, batch)
  /\ UNCHANGED ep_cfg

----------------------------------------------------------------------------
(* Specifications: one per processor                                       *)

IdleFiltering ==
  /\ f_Tags = <<>> /\ f_Fields = <<>> /\ f_regexCache = {} /\ f_in = <<>>
  /\ f_ret = F_NoResult /\ f_ret2 = F_NoResult /\ f_pc = "idle"

IdleRate ==
  /\ r_cfg = [Fields |-> {}, Suffix |-> "", Factor |-> 1, Delta_min |-> 0,
              Period |-> 0, Retention |-> 0]
  /\ r_initialized = FALSE /\ r_fields_map = {} /\ r_last_cleared = 0
  /\ r_cache = Empty /\ r_in = <<>> /\ r_out = <<>>
  /\ r_cleared0 = 0 /\ r_hist = Empty

IdleJitter ==
  /\ j_cfg = [Fields |-> {}, Interval |-> 0, Jitter_max |-> 0, Period |-> 0,
              Retention |-> 0]
  /\ j_initialized = FALSE /\ j_fields_map = {} /\ j_last_cleared = 0
  /\ j_cache = Empty /\ j_in = <<>> /\ j_out = <<>> /\ j_cleared0 = 0
  /\ j_seen = <<>>

IdleMonitoring ==
  /\ m_cfg = [Measurement |-> "", TagName |-> "", Period |-> 0,
              Retention |-> 0, Probe |-> <<>>]
  /\ m_initialized = FALSE /\ m_fields_map = Empty /\ m_last_cleared = 0
  /\ m_cache = Empty /\ m_in = <<>> /\ m_out = <<>> /\ m_cleared0 = 0
  /\ m_src = <<>> /\ m_pre = <<>>

IdleXmetrictags ==
  /\ x_cfg = [Fields |-> <<>>, Tags |-> <<>>, Period |-> 0]
  /\ x_initialized = FALSE /\ x_last_cleared = 0 /\ x_cache = Empty
  /\ x_pc = "running" /\ x_in = <<>> /\ x_out = <<>> /\ x_cleared0 = 0
  /\ x_writes = Empty /\ x_seen = <<>>

IdleXReducer ==
  /\ xr_cfg = [Tags |-> <<>>, Fields |-> <<>>] /\ xr_in = <<>>
  /\ xr_out = <<>> /\ xr_out2 = <<>> /\ xr_pc = "idle"

IdleSum == s_cfg = <<>> /\ s_in = <<>> /\ s_out = <<>>

IdleEnrichment ==
  /\ enrich = EmptyDB /\ e_cfg = <<>> /\ e_RefreshPeriod = 0
  /\ e_initialized = FALSE /\ e_FileError = FALSE /\ e_LastUpdate = 0
  /\ e_CurrentHash = "" /\ e_in = <<>> /\ e_out = <<>>
  /\ e_f1 = "none" /\ e_f2 = "none" /\ e_pc = "idle" /\ e_old = EmptyDB
  /\ q_in = <<>> /\ q_out = <<>> /\ q_seen = EmptyDB /\ q_fatal = FALSE

IdleEngines ==
  /\ g_engine = "" /\ g_Redial = 0 /\ g_Addresses = <<>> /\ g_started = "no"
  /\ g_cancelled = FALSE /\ g_wg = 0 /\ g_stop = "no" /\ g_w = <<>>
  /\ g_dials = 0 /\ g_errors = 0 /\ g_metrics = 0

IdleSched ==
  /\ n_r = <<>> /\ n_tick = 0 /\ n_counters = Empty /\ n_pc = "idle"
  /\ n_req = 0 /\ n_spent = 0 /\ n_cancelled = FALSE /\ n_first = <<>>
  /\ n_passes = 0 /\ n_fired = {} /\ n_after = <<>>

IdleReply ==
  /\ t_xpath = <<>> /\ t_value = "" /\ t_metricToSend = Empty
  /\ t_tagTable = Empty /\ t_grouper = <<>> /\ t_row = 0 /\ t_leaves = 0
  /\ t_last = "eof"

IdlePath == p_in = "idle" /\ p_w = <<>> /\ p_out = <<>> /\ p_buf = <<>>

IdleUpdate ==
  /\ u_cfg = <<>> /\ u_pc = "idle" /\ u_cancelled = FALSE /\ u_why = ""
  /\ u_reply = <<>> /\ u_adds = {} /\ u_errors = 0

IdlePair ==
  /\ ep_cfg = <<>> /\ ep_enrich = EmptyDB /\ ep_inst = <<>> /\ ep_who = 0
  /\ ep_in = <<>> /\ ep_out = <<>>

\* The state of a pipeline configured with processor p
InitOf(p) ==
  /\ plugin = p
  /\ now = 0
  /\ IF p = "filtering" THEN InitFiltering ELSE IdleFiltering
  /\ IF p = "rate" THEN InitRate ELSE IdleRate
  /\ IF p = "jitter" THEN InitJitter ELSE IdleJitter
  /\ IF p = "monitoring" THEN InitMonitoring ELSE IdleMonitoring
  /\ IF p = "xmetrictags" THEN InitXmetrictags ELSE IdleXmetrictags
  /\ IF p = "xreducer" THEN InitXReducer ELSE IdleXReducer
  /\ IF p = "sum" THEN InitSum ELSE IdleSum
  /\ IF p = "enrichment" THEN InitEnrichment ELSE IdleEnrichment
  /\ IF p = "engines" THEN InitEngines ELSE IdleEngines
  /\ IF p = "sched" THEN InitSched ELSE IdleSched
  /\ IF p = "reply" THEN InitReply ELSE IdleReply
  /\ IF p = "path" THEN InitPath ELSE IdlePath
  /\ IF p = "update" THEN InitUpdate ELSE IdleUpdate
  /\ IF p = "pair" THEN InitPair ELSE IdlePair

NextFiltering ==
  \/ FilteringApply /\ UNCHANGED <<plugin, now, rvars, jvars, mvars, xvars,
                 xrvars,
                 svars,
                 evars,
                 gvars,
                 nvars,
                 tvars,
                 pvars,
                 uvars,
                 epvars>>
  \/ FilteringApplyAgain /\ UNCHANGED <<plugin, now, rvars, jvars, mvars, xvars,
                 xrvars,
                 svars,
                 evars,
                 gvars,
                 nvars,
                 tvars,
                 pvars,
                 uvars,
                 epvars>>

NextRate == RateApply /\ UNCHANGED <<plugin, fvars, jvars, mvars, xvars,
                 xrvars,
                 svars,
                 evars,
                 gvars,
                 nvars,
                 tvars,
                 pvars,
                 uvars,
                 epvars>>

NextJitter == JitterApply /\ UNCHANGED <<plugin, fvars, rvars, mvars, xvars,
                 xrvars,
                 svars,
                 evars,
                 gvars,
                 nvars,
                 tvars,
                 pvars,
                 uvars,
                 epvars>>

NextMonitoring ==
  MonitoringApply /\ UNCHANGED <<plugin, fvars, rvars, jvars, xvars,
                 xrvars,
                 svars,
                 evars,
                 gvars,
                 nvars,
                 tvars,
                 pvars,
                 uvars,
                 epvars>>

NextXmetrictags ==
  XmetrictagsApply /\ UNCHANGED <<plugin, fvars, rvars, jvars, mvars,
                 xrvars,
                 svars,
                 evars,
                 gvars,
                 nvars,
                 tvars,
                 pvars,
                 uvars,
                 epvars>>

NextXReducer ==
  \/ XReducerApply
       /\ UNCHANGED <<plugin, now, fvars, rvars, jvars, mvars, xvars,
                 svars,
                 evars,
                 gvars,
                 nvars,
                 tvars,
                 pvars,
                 uvars,
                 epvars>>
  \/ XReducerApplyAgain
       /\ UNCHANGED <<plugin, now, fvars, rvars, jvars, mvars, xvars,
                 svars,
                 evars,
                 gvars,
                 nvars,
                 tvars,
                 pvars,
                 uvars,
                 epvars>>

NextSum ==
  SumApply /\ UNCHANGED <<plugin, now, fvars, rvars, jvars, mvars, xvars,
                          xrvars,
                 evars,
                 gvars,
                 nvars,
                 tvars,
                 pvars,
                 uvars,
                 epvars>>

NextEnrichment ==
  EnrichmentApply /\ UNCHANGED <<plugin, fvars, rvars, jvars, mvars, xvars,
                                 xrvars, svars,
                 gvars,
                 nvars,
                 tvars,
                 pvars,
                 uvars,
                 epvars>>

\* Two instances of the processor, each in its own goroutine: the reloads
\* of the first, step by step, and the calls of the second
NextEnrichmentRace ==
  /\ \/ ReloadBegin
     \/ ReloadStore
     \/ ReloadEnd
     \/ OtherApply
  /\ UNCHANGED <<plugin, fvars, rvars, jvars, mvars, xvars, xrvars, svars,
                 gvars,
                 nvars,
                 tvars,
                 pvars,
                 uvars,
                 epvars>>

\* A step of the input plugin leaves the processors as they are
EnginesOnly ==
  UNCHANGED <<plugin, now, fvars, rvars, jvars, mvars, xvars, xrvars,
                 svars, evars,
                 nvars,
                 tvars,
                 pvars,
                 uvars,
                 epvars>>

\* The steps of the goroutine i that both plugins have
WorkerLoop(i) ==
  \/ WorkerTest(i) \/ Dial(i) \/ SessionTest(i)
  \/ Report(i) \/ AddError(i) \/ WaitDone(i) \/ WaitTimer(i)

NextEngines ==
  \/ Start /\ EnginesOnly
  \/ \E i \in DOMAIN g_w : WorkerTest(i) /\ EnginesOnly
  \/ \E i \in DOMAIN g_w : Dial(i) /\ EnginesOnly
  \/ \E i \in DOMAIN g_w : SessionTest(i) /\ EnginesOnly
  \/ \E i \in DOMAIN g_w : GnmiRecv(i) /\ EnginesOnly
  \/ \E i \in DOMAIN g_w : GnmiRecvError(i) /\ EnginesOnly
  \/ \E i \in DOMAIN g_w : NetconfBreak(i) /\ EnginesOnly
  \/ \E i \in DOMAIN g_w : NetconfRpc(i) /\ EnginesOnly
  \/ \E i \in DOMAIN g_w : NetconfRpcError(i) /\ EnginesOnly
  \/ \E i \in DOMAIN g_w : Report(i) /\ EnginesOnly
  \/ \E i \in DOMAIN g_w : AddError(i) /\ EnginesOnly
  \/ \E i \in DOMAIN g_w : WaitDone(i) /\ EnginesOnly
  \/ \E i \in DOMAIN g_w : WaitTimer(i) /\ EnginesOnly
  \/ Tick /\ EnginesOnly
  \/ StopCancel /\ EnginesOnly
  \/ StopReturn /\ EnginesOnly

\* The netconf plugin alone: a step of its goroutine i, and its steps
InitNetconf == InitOf("engines") /\ g_engine = "netconf"

NetconfWorker(i) ==
  /\ i \in DOMAIN g_w
  /\ WorkerLoop(i) \/ NetconfRpc(i) \/ NetconfRpcError(i)
  /\ EnginesOnly

NextNetconf ==
  \/ Start /\ EnginesOnly
  \/ \E i \in 1..MaxAddr : NetconfWorker(i)
  \/ \E i \in DOMAIN g_w : NetconfBreak(i) /\ EnginesOnly
  \/ Tick /\ EnginesOnly
  \/ StopCancel /\ EnginesOnly
  \/ StopReturn /\ EnginesOnly

\* A step of the scheduling loop leaves the rest as it is
SchedOnly ==
  UNCHANGED <<plugin, now, fvars, rvars, jvars, mvars, xvars, xrvars,
                 svars, evars, gvars,
                 tvars,
                 pvars,
                 uvars,
                 epvars>>

NextSched ==
  \/ SchedStart /\ SchedOnly
  \/ SchedTest /\ SchedOnly
  \/ SchedSkip /\ SchedOnly
  \/ SchedRpc /\ SchedOnly
  \/ SchedRpcDone /\ SchedOnly
  \/ SchedSleep /\ SchedOnly
  \/ SchedCancel /\ SchedOnly

\* A step of the parsing of a reply leaves the rest as it is
ReplyOnly ==
  UNCHANGED <<plugin, now, fvars, rvars, jvars, mvars, xvars, xrvars,
                 svars, evars, gvars, nvars,
                 pvars,
                 uvars,
                 epvars>>

NextReply ==
  \/ ReplyBegin /\ ReplyOnly
  \/ TokenStart /\ ReplyOnly
  \/ TokenCharData /\ ReplyOnly
  \/ TokenEnd /\ ReplyOnly
  \/ TokenEOF /\ ReplyOnly

\* A step on a path leaves the rest as it is
PathOnly ==
  UNCHANGED <<plugin, now, fvars, rvars, jvars, mvars, xvars, xrvars,
                 svars, evars, gvars, nvars, tvars,
                 uvars,
                 epvars>>

NextPath ==
  \/ ParsePath /\ PathOnly
  \/ HandlePath /\ PathOnly

\* A step of the receive loop leaves the rest as it is
UpdateOnly ==
  UNCHANGED <<plugin, now, fvars, rvars, jvars, mvars, xvars, xrvars,
                 svars, evars, gvars, nvars, tvars, pvars,
                 epvars>>

NextUpdate ==
  \/ RecvTest /\ UpdateOnly
  \/ RecvReply /\ UpdateOnly
  \/ RecvError /\ UpdateOnly
  \/ RecvCancel /\ UpdateOnly

NextPair ==
  PairApply /\ UNCHANGED <<plugin, fvars, rvars, jvars, mvars, xvars, xrvars,
                           svars, evars, gvars, nvars, tvars, pvars, uvars>>

SpecFiltering == InitOf("filtering") /\ [][NextFiltering]_vars

SpecRate == InitOf("rate") /\ [][NextRate]_vars

SpecJitter == InitOf("jitter") /\ [][NextJitter]_vars

SpecMonitoring == InitOf("monitoring") /\ [][NextMonitoring]_vars

SpecXmetrictags == InitOf("xmetrictags") /\ [][NextXmetrictags]_vars

SpecXReducer == InitOf("xreducer") /\ [][NextXReducer]_vars

SpecSum == InitOf("sum") /\ [][NextSum]_vars

SpecEnrichment == InitOf("enrichment") /\ [][NextEnrichment]_vars

SpecEnrichmentRace == InitOf("enrichment") /\ [][NextEnrichmentRace]_vars

SpecEngines == InitOf("engines") /\ [][NextEngines]_vars

\* The netconf plugin under the scheduling of the Go runtime: Start returns,
\* every goroutine that can take a step takes one in the end, and time
\* passes; whether Stop is called and whether a transport breaks is left to
\* the environment
SpecNetconfFair ==
  /\ InitNetconf
  /\ [][NextNetconf]_vars
  /\ WF_vars(Start /\ EnginesOnly)
  /\ \A i \in 1..MaxAddr : WF_vars(NetconfWorker(i))
  /\ WF_vars(Tick /\ EnginesOnly)

SpecSched == InitOf("sched") /\ [][NextSched]_vars

\* The loop of subscribeNETCONF under the scheduling of the Go runtime: the
\* goroutine takes its next step in the end (SyncRPC returns, within its
\* timeout of 60 s); whether Stop is called is left to the environment
SpecSchedFair ==
  /\ InitOf("sched")
  /\ [][NextSched]_vars
  /\ WF_vars((SchedStart \/ SchedTest \/ SchedSkip \/ SchedRpc
               \/ SchedRpcDone \/ SchedSleep) /\ SchedOnly)

SpecReply == InitOf("reply") /\ [][NextReply]_vars

SpecPath == InitOf("path") /\ [][NextPath]_vars

SpecUpdate == InitOf("update") /\ [][NextUpdate]_vars

SpecPair == InitOf("pair") /\ [][NextPair]_vars

\* A pipeline with one of the processors that keep a cache
InitCaches == \E p \in {"rate", "jitter", "monitoring", "xmetrictags"} : InitOf(p)

NextCaches == NextRate \/ NextJitter \/ NextMonitoring \/ NextXmetrictags

SpecCaches == InitCaches /\ [][NextCaches]_vars

----------------------------------------------------------------------------
(* Claims on Filtering                                                     *)

F_AllCompile ==
  \A i \in DOMAIN f_Tags : Compiles(f_Tags[i].Pattern)

\* A rule flags a measurement: action drop and the pattern matches, or
\* action accept and it does not match; tag rules look at a tag that is
\* present, field rules at a string field that is present.
F_RuleFlags(rule, text) ==
  \/ rule.Action = "drop" /\ MatchString(rule.Pattern, text)
  \/ rule.Action = "accept" /\ ~MatchString(rule.Pattern, text)

F_Flagged(m) ==
  \/ \E i \in DOMAIN f_Tags :
       /\ HasTag(m, f_Tags[i].Key)
       /\ F_RuleFlags(f_Tags[i], m.tags[f_Tags[i].Key])
  \/ \E i \in DOMAIN f_Fields :
       /\ HasField(m, f_Fields[i].Key)
       /\ m.fields[f_Fields[i].Key].k = "string"
       /\ F_RuleFlags(f_Fields[i], m.fields[f_Fields[i].Key].s)

\* C1: Filtering.Apply returns exactly the unflagged measurements of its
\* input: for every batch and rule set (of patterns that compile) the call
\* returns, and a measurement is in the returned batch iff it is in the
\* input and no rule flags it.
C1_ReturnsUnflagged ==
  (f_pc # "idle" /\ F_AllCompile) =>
    /\ ~f_ret.panic
    /\ Range(f_ret.out) = {m \in Range(f_in) : ~F_Flagged(m)}
    /\ Len(f_ret.out) = Cardinality(Range(f_ret.out))

\* The case of scenario S4: one rule {device, ^r1$, drop} and a batch with
\* device = r1, r2, r1 has been given to Apply.
C1_ScenarioS4 ==
  /\ f_pc # "idle"
  /\ f_Tags = <<[Key |-> "device", Pattern |-> "^r1$", Action |-> "drop"]>>
  /\ f_Fields = <<>>
  /\ Len(f_in) = 3
  /\ \A i \in 1..3 : f_in[i].fields = Empty
  /\ f_in[1].tags = ("device" :> "r1")
  /\ f_in[2].tags = ("device" :> "r2")
  /\ f_in[3].tags = ("device" :> "r1")

\* C2: Filtering is idempotent: for every batch and every rule set (of
\* patterns that compile) Apply returns, and Apply on the batch it returned
\* returns the same set of measurements.
C2_Idempotent ==
  (f_pc # "idle" /\ F_AllCompile) =>
    /\ f_pc # "crashed"
    /\ f_pc = "twice" => Range(f_ret2.out) = Range(f_ret.out)

\* Both calls of Apply have returned and the first one removed something.
C2_AppliedTwice ==
  /\ f_pc = "twice"
  /\ Len(f_ret.out) < Len(f_in)

----------------------------------------------------------------------------
(* Claims on Rate                                                          *)

\* The measurement i of the last batch is the sample the record of its
\* series describes: a configured numeric field in_octets, no later
\* measurement of the batch in the same series.
R_LastSample(i) ==
  /\ i \in DOMAIN r_in
  /\ "in_octets" \in r_fields_map
  /\ HasField(r_in[i], "in_octets")
  /\ convert(r_in[i].fields["in_octets"]).ok
  /\ \A j \in DOMAIN r_in :
       j > i => ~(/\ r_in[j].tags = r_in[i].tags
                  /\ HasField(r_in[j], "in_octets")
                  /\ convert(r_in[j].fields["in_octets"]).ok)

R_RateName == StrCat("in_octets", r_cfg.Suffix)

\* The measurement i came out with the rate field holding rate
R_GainedRate(i, rate) ==
  /\ HasField(r_out[i], R_RateName)
  /\ r_out[i].fields[R_RateName].k = "float64"
  /\ RatEq(RatOf(r_out[i].fields[R_RateName]), rate)

\* What the series says the rate of its last sample is
R_SeriesRate(h) ==
  LET d == RatSub(h.v, h.pv)
  IN  [num |-> d.num * r_cfg.Factor, den |-> d.den * h.dt]

\* The rate rule for the series whose samples are spaced by at least (or,
\* strict, by more than) delta_min
R_RateRule(strict) ==
  \A i \in DOMAIN r_in :
    R_LastSample(i) =>
      LET h == r_hist[RateId("in_octets", r_in[i])]
      IN  (/\ h.dt > 0
           /\ ~h.lost
           /\ IF strict THEN h.dt > r_cfg.Delta_min
                        ELSE h.dt >= r_cfg.Delta_min) =>
            IF RatLeq(h.pv, h.v)
            THEN R_GainedRate(i, R_SeriesRate(h))
            ELSE r_out[i].fields = r_in[i].fields

\* C3: for a series of samples of a configured field with the same tags,
\* uniform spacing dt >= delta_min (dt = delta_min included) and whose
\* cache entry no sweep has removed, every sample after the first gains
\* the field <field_name><suffix> with value (v_n - v_{n-1}) * factor / dt
\* when v_n >= v_{n-1}, and no field when v_n < v_{n-1}.
C3_RateOnUniformSeries == R_RateRule(FALSE)

\* A second sample of a series has come exactly delta_min after the first
C3_AtDeltaMin ==
  \E i \in DOMAIN r_in :
    /\ R_LastSample(i)
    /\ r_cfg.Delta_min > 0
    /\ r_hist[RateId("in_octets", r_in[i])].dt = r_cfg.Delta_min
    /\ ~r_hist[RateId("in_octets", r_in[i])].lost

----------------------------------------------------------------------------
(* Claims on Jitter                                                        *)

Abs(x) == IF x < 0 THEN -x ELSE x

\* The alarms the rule "alarm iff |delta - interval| > jitter_max" (strict)
\* or ">= jitter_max" gives for the samples of the last call that found a
\* cache entry, in their order
RECURSIVE J_RuleAlarms(_, _)
J_RuleAlarms(k, strict) ==
  IF k = 0 THEN <<>>
  ELSE LET e == j_seen[k]
           dev == Abs(e.delta - j_cfg.Interval)
           hit == IF strict THEN dev > j_cfg.Jitter_max
                            ELSE dev >= j_cfg.Jitter_max
       IN  IF hit
           THEN Append(J_RuleAlarms(k - 1, strict),
                       Metric("JITTER_MEASUREMENT", j_in[e.i].tags,
                              ("exception" :> FloatV(e.delta, 1)), j_in[e.i].tm))
           ELSE J_RuleAlarms(k - 1, strict)

\* C4: for a sample of a configured numeric field whose series has a cache
\* entry, a JITTER_MEASUREMENT alarm (exception = delta_t, the tags of the
\* sample) is emitted iff |delta_t - interval| > jitter_max; none is
\* emitted when |delta_t - interval| = jitter_max.
C4_AlarmIffExceeds ==
  j_out = j_in \o J_RuleAlarms(Len(j_seen), TRUE)

\* A sample found a cache entry with |delta_t - interval| = jitter_max
C4_AtJitterMax ==
  \E k \in DOMAIN j_seen :
    Abs(j_seen[k].delta - j_cfg.Interval) = j_cfg.Jitter_max

----------------------------------------------------------------------------
(* Claims on Monitoring                                                    *)

\* The alarms of the last call raised for field key of measurement i
M_Raised(i, key) == {k \in DOMAIN m_src : m_src[k] = [i |-> i, key |-> key]}
M_AlarmAt(k) == m_out[Len(m_in) + k]

\* The samples of the last call: the fields of its measurements that have a
\* probe and hold a number
M_Samples ==
  {s \in [i : DOMAIN m_in, key : DOMAIN m_fields_map] :
     /\ s.key \in DOMAIN m_in[s.i].fields
     /\ convert(m_in[s.i].fields[s.key]).ok}
M_Value(s) == convert(m_in[s.i].fields[s.key]).value
M_ProbeOf(s) == m_fields_map[s.key]

\* Whether the alarm of a sample copies a tag of the measurement that is
\* named as the alarms' tag
M_CopiesAlarmTag(s) ==
  /\ M_ProbeOf(s).CopyTag
  /\ m_cfg.TagName \in DOMAIN m_in[s.i].tags
  /\ M_ProbeOf(s).Tags = <<>> \/ m_cfg.TagName \in Range(M_ProbeOf(s).Tags)

M_Prev(i) == m_pre[i][1]

\* The samples of the last call of a delta probe that passed min_value and
\* whose series had a cached sample with the field
M_DeltaSamples ==
  {s \in M_Samples :
     /\ M_ProbeOf(s).ProbeType = "delta"
     /\ RatLeq(M_ProbeOf(s).MinValue, M_Value(s))
     /\ m_pre[s.i] # <<>>
     /\ s.key \in DOMAIN M_Prev(s.i).fields}

\* C6: for every sample of a delta probe, the quantity compared with the
\* threshold and reported as exception is the field's value minus the value
\* of that field in the previous sample of the series, also when the
\* measurement has several fields with a delta probe
C6_DeltaAgainstPrevious ==
  \A s \in M_DeltaSamples :
    LET q == RatSub(M_Value(s), M_Prev(s.i).fields[s.key])
    IN  IF M_Reached(M_ProbeOf(s).Operator, q, M_ProbeOf(s).Threshold)
        THEN /\ Cardinality(M_Raised(s.i, s.key)) = 1
             /\ \A k \in M_Raised(s.i, s.key) :
                  RatEq(RatOf(M_AlarmAt(k).fields["exception"]), q)
        ELSE M_Raised(s.i, s.key) = {}

\* C6 witness: a measurement with two fields that each have a delta probe,
\* both changed since the cached sample of the series
C6_TwoDeltaFields ==
  \E s1 \in M_DeltaSamples : \E s2 \in M_DeltaSamples :
    /\ s1.i = s2.i /\ s1.key # s2.key
    /\ ~RatEq(M_Value(s1), M_Prev(s1.i).fields[s1.key])
    /\ ~RatEq(M_Value(s2), M_Prev(s2.i).fields[s2.key])

\* The samples of the last call of a delta-family probe that are the last
\* of their series in the call
M_LastDeltaFamily ==
  {s \in M_Samples :
     /\ M_ProbeOf(s).ProbeType \in {"delta", "delta_rate", "delta_percent"}
     /\ \A j \in DOMAIN m_in :
          MonitoringId(m_in[j]) = MonitoringId(m_in[s.i]) => j <= s.i}

\* C7: after Apply has processed a sample of a field with a delta-family
\* probe, the cache entry of the series holds that sample, its field values
\* and its timestamp, whatever the value relative to min_value
C7_CacheHoldsCurrentSample ==
  \A s \in M_LastDeltaFamily :
    /\ MonitoringId(m_in[s.i]) \in DOMAIN m_cache
    /\ m_cache[MonitoringId(m_in[s.i])].tm = m_in[s.i].tm
    /\ s.key \in DOMAIN m_cache[MonitoringId(m_in[s.i])].fields
    /\ RatEq(m_cache[MonitoringId(m_in[s.i])].fields[s.key], M_Value(s))

\* C7 witness: a sample of a delta-family probe below min_value, of a
\* series that has a cached sample
C7_BelowMinValue ==
  \E s \in M_LastDeltaFamily :
    /\ ~RatLeq(M_ProbeOf(s).MinValue, M_Value(s))
    /\ m_pre[s.i] # <<>>

\* The tags of the measurement a probe copies to its alarm
M_Copied(probe, tags) ==
  IF ~probe.CopyTag THEN {}
  ELSE IF probe.Tags = <<>> THEN DOMAIN tags
  ELSE DOMAIN tags \cap Range(probe.Tags)

\* C8: every alarm carries tag_name = alarm_name and, besides, the tags of
\* the original measurement the probe copies: all of them with copy_tag and
\* an empty tags list, those named in the list with copy_tag and a list,
\* none without copy_tag
C8_AlarmTags ==
  \A k \in DOMAIN m_src :
    LET probe == m_fields_map[m_src[k].key]
        tags == m_in[m_src[k].i].tags
        copied == M_Copied(probe, tags)
    IN  /\ DOMAIN M_AlarmAt(k).tags = {m_cfg.TagName} \cup copied
        /\ M_AlarmAt(k).tags[m_cfg.TagName] = probe.AlarmName
        /\ \A t \in copied \ {m_cfg.TagName} : M_AlarmAt(k).tags[t] = tags[t]

\* C8 witness: an alarm of a probe that copies all the tags of a
\* measurement that carries a tag named tag_name
C8_CopiedTagNamedAsAlarmTag ==
  \E k \in DOMAIN m_src :
    /\ m_fields_map[m_src[k].key].CopyTag
    /\ m_fields_map[m_src[k].key].Tags = <<>>
    /\ m_cfg.TagName \in DOMAIN m_in[m_src[k].i].tags

----------------------------------------------------------------------------
(* Claims on Xmetrictags                                                   *)

\* Whether measurement m has all the tag_keys of a rule, and there is one
X_HasTags(rule, m) ==
  /\ rule.Tag_keys # <<>>
  /\ \A k \in DOMAIN rule.Tag_keys : rule.Tag_keys[k] \in DOMAIN m.tags

\* The measurements of the last call a field rule stores: all tag_keys and
\* a non-empty string under track_key
X_Tracked(rule) ==
  {i \in DOMAIN x_in :
     /\ X_HasTags(rule, x_in[i])
     /\ rule.Track_key \in DOMAIN x_in[i].fields
     /\ x_in[i].fields[rule.Track_key].k = "string"
     /\ x_in[i].fields[rule.Track_key].s # ""}

\* The measurements of the last call a field rule looks up: all tag_keys
\* and no track_key
X_Untracked(rule) ==
  {i \in DOMAIN x_in :
     /\ X_HasTags(rule, x_in[i])
     /\ rule.Track_key \notin DOMAIN x_in[i].fields}

\* C9: a measurement with all tag_keys and a non-empty track_key value V is
\* tagged tag_name = V; a measurement with the tag_keys and no track_key is
\* looked up, gets tag_name = V, the value last stored under its tag_keys
\* values, if that entry has not expired, and gets no tag_name tag if the
\* cache has no entry for it
C9_TagFromCachedValue ==
  x_pc = "running" =>
    /\ \A k \in DOMAIN x_cfg.Fields :
         LET rule == x_cfg.Fields[k]
         IN  /\ \A i \in X_Tracked(rule) :
                  /\ rule.Tag_name \in DOMAIN x_out[i].tags
                  /\ x_out[i].tags[rule.Tag_name] =
                       x_in[i].fields[rule.Track_key].s
             /\ \A i \in X_Untracked(rule) :
                  \E n \in DOMAIN x_seen :
                    x_seen[n].i = i /\ x_seen[n].tag_name = rule.Tag_name
    /\ \A n \in DOMAIN x_seen :
         LET e == x_seen[n]
         IN  /\ (e.last # <<>> /\ now <= e.last[1].tm) =>
                  /\ e.tag_name \in DOMAIN x_out[e.i].tags
                  /\ x_out[e.i].tags[e.tag_name] = e.last[1].track_key_value
             /\ ~e.hit => e.tag_name \notin DOMAIN x_out[e.i].tags

\* C9 witness: a measurement without parent_ae got lag_id from an entry
\* written by an earlier call, in a call that swept the cache
C9_TaggedAfterSweep ==
  /\ x_pc = "running"
  /\ x_last_cleared = now /\ x_cleared0 < now
  /\ \E n \in DOMAIN x_seen :
       /\ x_seen[n].hit
       /\ x_seen[n].tag_name = "lag_id"
       /\ x_out[x_seen[n].i].tags["lag_id"] = "ae1"

----------------------------------------------------------------------------
(* Claims on the caches                                                    *)

\* The entries of a cache older than the retention at the current time
StaleIds(cache, retention) ==
  {id \in DOMAIN cache : cache[id].tm + retention < now}

\* The entries of the cache of the processor of the pipeline that are past
\* their retention (for Xmetrictags, past their stored expiry)
C10_Stale ==
  CASE plugin = "rate" -> StaleIds(r_cache, r_cfg.Retention)
    [] plugin = "jitter" -> StaleIds(j_cache, j_cfg.Retention)
    [] plugin = "monitoring" -> StaleIds(m_cache, m_cfg.Retention)
    [] plugin = "xmetrictags" -> StaleIds(x_cache, 0)

\* Whether the last Apply of the processor has returned, and the
\* last_cleared it found plus the period
C10_Returned ==
  CASE plugin = "rate" -> r_initialized
    [] plugin = "jitter" -> j_initialized
    [] plugin = "monitoring" -> m_initialized
    [] plugin = "xmetrictags" -> x_initialized /\ x_pc = "running"
C10_Due ==
  CASE plugin = "rate" -> r_cleared0 + r_cfg.Period
    [] plugin = "jitter" -> j_cleared0 + j_cfg.Period
    [] plugin = "monitoring" -> m_cleared0 + m_cfg.Period
    [] plugin = "xmetrictags" -> x_cleared0 + x_cfg.Period

\* The entries the last Apply wrote: those that hold a sample of its batch
C10_OwnWrites ==
  CASE plugin = "rate" ->
         {id \in DOMAIN r_cache : \E i \in DOMAIN r_in :
            id = RateId(id[1], r_in[i]) /\ r_cache[id].tm = r_in[i].tm}
    [] plugin = "jitter" ->
         {id \in DOMAIN j_cache : \E i \in DOMAIN j_in :
            id = JitterId(id[1], j_in[i]) /\ j_cache[id].tm = j_in[i].tm}
    [] plugin = "monitoring" ->
         {id \in DOMAIN m_cache : \E i \in DOMAIN m_in :
            id = MonitoringId(m_in[i]) /\ m_cache[id].tm = m_in[i].tm}
    [] plugin = "xmetrictags" -> {}

\* C10 as claimed: after an Apply that ran at now >= last_cleared + period
\* the cache has no entry past its retention, the entries that Apply wrote
\* included
C10_NoStaleEntry ==
  (C10_Returned /\ now >= C10_Due) => C10_Stale = {}

\* C10 as amended: after an Apply that ran at now > last_cleared + period
\* the cache has no entry past its retention other than entries that Apply
\* wrote itself
C10_NoStaleEntryFromBefore ==
  (C10_Returned /\ now > C10_Due) => C10_Stale \subseteq C10_OwnWrites

\* C10 witness: an Apply that swept the cache and then cached a sample
\* older than the retention
C10_SweptThenWroteStale ==
  /\ C10_Returned /\ now > C10_Due
  /\ C10_Stale # {}

----------------------------------------------------------------------------
(* Claims on XReducer                                                      *)

\* What follows the last '/' of a key, the key itself if it has none
XR_LastSegment(key) ==
  LET slashes == {i \in DOMAIN key : key[i] = "/"}
  IN  IF slashes = {} THEN key
      ELSE SubSeq(key, (CHOOSE i \in slashes : \A j \in slashes : j <= i) + 1,
                  Len(key))

\* Whether a rule selects a key: its key is the key, or is "all"
XR_Selected(key, rules) ==
  \E r \in DOMAIN rules : rules[r].Key = key \/ rules[r].Key = XR_All

\* A list of tags or fields as the rules are to leave it
XR_Expected(list, rules) ==
  [i \in DOMAIN list |->
     [Key |-> IF XR_Selected(list[i].Key, rules)
              THEN XR_LastSegment(list[i].Key) ELSE list[i].Key,
      Value |-> list[i].Value]]

\* C11: every key a rule selects is replaced by its last '/'-separated
\* segment, a key without '/' and every value is unchanged, and a second
\* Apply returns what the first returned
C11_ReducedOnce ==
  /\ xr_pc # "idle" =>
       /\ Len(xr_out) = Len(xr_in)
       /\ \A i \in DOMAIN xr_in :
            /\ xr_out[i].name = xr_in[i].name
            /\ xr_out[i].tm = xr_in[i].tm
            /\ xr_out[i].tags = XR_Expected(xr_in[i].tags, xr_cfg.Tags)
            /\ xr_out[i].fields = XR_Expected(xr_in[i].fields, xr_cfg.Fields)
  /\ xr_pc = "twice" => xr_out2 = xr_out

\* C11 witness: two calls, the first shortened a tag key and a field key
\* and left a key with a '/' that no rule selects
C11_ShortenedAndApplied ==
  /\ xr_pc = "twice"
  /\ \E i \in DOMAIN xr_in :
       /\ \E k \in DOMAIN xr_in[i].tags :
            xr_out[i].tags[k].Key # xr_in[i].tags[k].Key
       /\ \E k \in DOMAIN xr_in[i].tags :
            /\ XR_Contains(xr_in[i].tags[k].Key)
            /\ xr_out[i].tags[k].Key = xr_in[i].tags[k].Key
       /\ \E k \in DOMAIN xr_in[i].fields :
            xr_out[i].fields[k].Key # xr_in[i].fields[k].Key

----------------------------------------------------------------------------
(* Claims about Sum                                                        *)

\* The positions of the rule's sources list whose field is on the
\* measurement, whatever its type
S_Present(m, rule) ==
  {k \in DOMAIN rule.Sources : rule.Sources[k] \in DOMAIN m.fields}

\* The positions whose field is on the measurement with a value of type
\* int64, uint64 or float64
S_Numeric(m, rule) ==
  {k \in S_Present(m, rule) :
     m.fields[rule.Sources[k]].k \in {"int64", "uint64", "float64"}}

RECURSIVE S_Total(_, _, _)
S_Total(m, rule, K) ==
  IF K = {} THEN Rat(0)
  ELSE LET k == CHOOSE x \in K : TRUE
           v == m.fields[rule.Sources[k]]
       IN  RatAdd([num |-> v.num, den |-> v.den], S_Total(m, rule, K \ {k}))

\* The measurement after the rules k.. one after the other, a rule adding
\* its target when one of its sources is present, with a numeric value
\* if numeric is TRUE and with a value of any type otherwise
RECURSIVE S_Expected(_, _, _, _)
S_Expected(m, rules, k, numeric) ==
  IF k > Len(rules) THEN m
  ELSE LET rule == rules[k]
           total == S_Total(m, rule, S_Numeric(m, rule))
           emits == IF numeric THEN S_Numeric(m, rule) ELSE S_Present(m, rule)
           after == IF emits = {} THEN m
                    ELSE [m EXCEPT !.fields =
                            [f \in DOMAIN m.fields \cup {rule.Target} |->
                               IF f = rule.Target
                               THEN FloatV(total.num, total.den)
                               ELSE m.fields[f]]]
       IN  S_Expected(after, rules, k + 1, numeric)

\* Two measurements with the same name, tags, time and fields, the numbers
\* compared by value
S_Same(a, b) ==
  /\ a.name = b.name /\ a.tags = b.tags /\ a.tm = b.tm
  /\ DOMAIN a.fields = DOMAIN b.fields
  /\ \A f \in DOMAIN a.fields :
       /\ a.fields[f].k = b.fields[f].k
       /\ a.fields[f].s = b.fields[f].s
       /\ a.fields[f].num * b.fields[f].den = b.fields[f].num * a.fields[f].den

\* C12, as stated: every rule, applied to the measurement as the rules
\* before it left it, adds the float field target holding the sum of the
\* numeric sources present, adds nothing when no source is present, and no
\* other field changes
C12_SumOfPresent ==
  plugin = "sum" =>
    /\ Len(s_out) = Len(s_in)
    /\ \A i \in DOMAIN s_in :
         S_Same(s_out[i], S_Expected(s_in[i], s_cfg, 1, FALSE))

\* C12, amended: every rule, applied to the measurement as the rules before
\* it left it, adds the float field target holding the sum of the numeric
\* sources present, adds nothing when no source is present with a numeric
\* value, and no other field changes
C12_SumOfNumeric ==
  plugin = "sum" =>
    /\ Len(s_out) = Len(s_in)
    /\ \A i \in DOMAIN s_in :
         S_Same(s_out[i], S_Expected(s_in[i], s_cfg, 1, TRUE))

\* C12 witness: a string source is skipped, the float source alone makes
\* the first target, and the second rule sums that target with c
C12_StringSkippedAndChained ==
  /\ plugin = "sum"
  /\ s_cfg = <<S_Rule(<<"a", "b">>, "aplusb"), S_Rule(<<"aplusb", "c">>, "total")>>
  /\ \E i \in DOMAIN s_out :
       /\ DOMAIN s_in[i].fields = {"a", "b", "c"}
       /\ s_in[i].fields["a"].k = "string"
       /\ s_in[i].fields["b"] = FloatV(1, 2)
       /\ DOMAIN s_out[i].fields = {"a", "b", "c", "aplusb", "total"}
       /\ s_out[i].fields["total"].num * 2 = 3 * s_out[i].fields["total"].den

----------------------------------------------------------------------------
(* Claims about Enrichment                                                 *)

\* C13: an Apply whose refresh fails to open the file leaves the component
\* errored and adds no tag in that call
C13_OpenErrorMarksErrored ==
  (plugin = "enrichment" /\ e_pc = "idle" /\ e_f1 = "missing") =>
    (e_FileError /\ e_out = e_in)

\* C13 witness: the refresh failed to open the file, the component is not
\* errored and the call added tags from the mapping loaded before
C13_EnrichedAfterOpenError ==
  /\ plugin = "enrichment"
  /\ e_pc = "idle"
  /\ e_f1 = "missing"
  /\ ~e_FileError
  /\ e_initialized
  /\ e_LastUpdate = now
  /\ \E i \in DOMAIN e_in :
       /\ "site" \notin DOMAIN e_in[i].tags
       /\ "site" \in DOMAIN e_out[i].tags


\* C14: an Apply whose refresh finds changed content that is no JSON leaves
\* the component errored and adds no tag in that call
C14_ParseErrorMarksErrored ==
  (plugin = "enrichment" /\ e_pc = "idle" /\ e_f1 = "bad" /\ e_f2 = "bad") =>
    (e_FileError /\ e_out = e_in)

\* C14 witness: the refresh read content that is no JSON; the mapping is
\* empty, the measurement of a device comes back as it came, and the
\* component is initialized and not errored
C14_EmptiedNotErrored ==
  /\ plugin = "enrichment"
  /\ e_pc = "idle"
  /\ e_f1 = "bad" /\ e_f2 = "bad"
  /\ e_CurrentHash = E_MD5("bad")
  /\ enrich = EmptyDB
  /\ ~e_FileError
  /\ e_initialized
  /\ now > 0
  /\ \E i \in DOMAIN e_in : "device" \in DOMAIN e_in[i].tags
  /\ e_out = e_in


\* C14, amended: an Apply whose refresh finds changed content that is no
\* JSON empties the mapping and leaves the component initialized and not
\* errored; that call and every later one return the measurements without
\* added tag until a refresh reads content that is JSON
C14_EmptiedUntilValid ==
  /\ []((plugin = "enrichment" /\ e_pc = "idle" /\ e_f1 = "bad" /\ e_f2 = "bad")
          => (enrich = EmptyDB /\ ~e_FileError /\ e_initialized /\ e_out = e_in))
  /\ [][(plugin = "enrichment" /\ e_pc = "idle" /\ enrich = EmptyDB
           /\ e_f2' \notin {"A", "B"})
          => (enrich' = EmptyDB /\ e_out' = e_in')]_vars


C16_SeesOldOrNew ==
  [][(plugin = "enrichment" /\ e_pc = "unmarshal" /\ e_pc' = "unmarshal"
        /\ enrich' = enrich
        /\ <<q_in, q_out, q_seen, q_fatal>>' # <<q_in, q_out, q_seen, q_fatal>>)
       => (~q_fatal' /\ q_seen' \in {e_old, E_Parse(e_f2)})]_vars

\* C16 witness: the reload replaces the mapping of content A by that of
\* content B, both with an entry for r1; the other instance read a mapping
\* holding the entry of r2 alone and returned the measurement of r1 without
\* the tag site
C16_SawPartialMapping ==
  /\ plugin = "enrichment"
  /\ e_pc = "unmarshal"
  /\ e_old = DB_A
  /\ e_f2 = "B"
  /\ enrich = q_seen
  /\ DOMAIN q_seen = {"r2"}
  /\ ~q_fatal
  /\ \E i \in DOMAIN q_in :
       /\ "device" \in DOMAIN q_in[i].tags
       /\ q_in[i].tags["device"] = "r1"
       /\ q_out[i] = q_in[i]

----------------------------------------------------------------------------
(* Claims about the input plugins                                          *)

\* C17: Start of an instance of either plugin whose redial is not positive
\* returns an error and starts no goroutine, and the instance makes no
\* dial and no call of AddMetric or AddError, whatever follows
C17_RejectedStartRunsNothing ==
  (plugin = "engines" /\ g_started # "no" /\ g_Redial <= 0) =>
    /\ g_started = "error"
    /\ g_w = <<>>
    /\ g_wg = 0
    /\ g_dials = 0 /\ g_errors = 0 /\ g_metrics = 0

\* C17 witness: a redial of zero with two addresses configured; Start has
\* returned its error and Stop has returned after it
C17_RejectedThenStopped ==
  /\ plugin = "engines"
  /\ g_Redial = 0
  /\ Len(g_Addresses) = 2
  /\ g_started = "error"
  /\ g_stop = "returned"
  /\ g_dials = 0


\* C18: a Start that succeeds starts one goroutine per address; Stop
\* cancels the context and returns only when every goroutine has ended,
\* and after Stop has returned no call of AddMetric or AddError is made
C18_StopJoinsWorkers ==
  /\ []((plugin = "engines" /\ g_started = "ok")
          => (Len(g_w) = Len(g_Addresses)
              /\ g_wg = Cardinality({i \in DOMAIN g_w : g_w[i].pc # "done"})))
  /\ []((plugin = "engines" /\ g_stop # "no") => g_cancelled)
  /\ []((plugin = "engines" /\ g_stop = "returned")
          => \A i \in DOMAIN g_w : g_w[i].pc = "done")
  /\ [][(plugin = "engines" /\ g_stop = "returned")
          => (g_metrics' = g_metrics /\ g_errors' = g_errors
              /\ g_dials' = g_dials)]_vars

\* C18 witness: two goroutines were started, both have dialed, an error
\* and a measurement were added, and Stop has returned with both ended
C18_StoppedTwoWorkers ==
  /\ plugin = "engines"
  /\ g_started = "ok"
  /\ Len(g_w) = 2
  /\ g_stop = "returned"
  /\ \A i \in DOMAIN g_w : g_w[i].pc = "done" /\ g_w[i].dialed
  /\ g_errors > 0
  /\ g_metrics > 0


\* The goroutine i moves from one position to another in this step
G_Moves(i, from, to) ==
  i \in DOMAIN g_w /\ i \in DOMAIN g_w' /\ g_w[i].pc = from /\ g_w'[i].pc = to

\* What C19 says of a goroutine whose context is not cancelled: an error
\* returned by subscribe is reported by exactly one AddError, the wait that
\* follows ends no earlier than redial after its start, and a dial is no
\* less than redial after the dial before it
G_RedialSteps ==
  \A i \in DOMAIN g_w :
    /\ (g_w[i].pc = "report" /\ g_w[i].err /\ ~g_cancelled
          /\ i \in DOMAIN g_w' /\ g_w'[i].pc # "report")
         => g_w'[i].pc = "adderror"
    /\ (g_w[i].pc = "report" /\ ~g_w[i].err) => ~G_Moves(i, "report", "adderror")
    /\ G_Moves(i, "adderror", "wait")
         => (g_errors' = G_Count(g_errors) /\ g_w'[i].timer = 0)
    /\ (\E to \in {"test", "dial", "loop", "io", "report", "wait", "done"} :
          G_Moves(i, "adderror", to)) => G_Moves(i, "adderror", "wait")
    /\ (g_w[i].pc # "adderror" /\ i \in DOMAIN g_w' /\ g_w'[i].pc # g_w[i].pc)
         => g_errors' = g_errors
    /\ (G_Moves(i, "wait", "test") /\ ~g_cancelled)
         => (g_w[i].timer >= g_Redial /\ g_w[i].since >= g_Redial)
    /\ (\E to \in {"dial", "loop", "io", "report", "adderror", "done"} :
          G_Moves(i, "wait", to)) => FALSE
    /\ (g_w[i].pc = "dial" /\ i \in DOMAIN g_w' /\ g_w'[i].pc # "dial"
          /\ g_w[i].dialed)
         => g_w[i].since >= g_Redial

C20_BrokenSessionRedials ==
  \A i \in 1..MaxAddr :
    (plugin = "engines" /\ i \in DOMAIN g_w /\ g_w[i].pc \in {"loop", "io"}
       /\ g_w[i].broken)
      ~> (g_cancelled \/ (i \in DOMAIN g_w /\ g_w[i].pc = "dial"))

\* C20 witness: the transport broke, more than redial has passed since the
\* one dial, the context is not cancelled, and the goroutine is in the
\* loop of its session
C20_StillOnBrokenSession ==
  /\ plugin = "engines"
  /\ g_engine = "netconf"
  /\ g_Redial = 1
  /\ ~g_cancelled
  /\ g_dials = 1
  /\ \E i \in DOMAIN g_w :
       /\ g_w[i].pc = "loop"
       /\ g_w[i].broken
       /\ g_w[i].since = MaxRedial

----------------------------------------------------------------------------
(* Claims about the failures of the processors                             *)

\* C29: when a rule whose pattern does not compile meets, for the first
\* time, a measurement that has its key, Apply returns (a batch of one
\* measurement is taken, on which no removal can fail)
C29_CompileFailureContained ==
  (plugin = "filtering" /\ f_pc # "idle" /\ Len(f_in) = 1
     /\ \E k \in DOMAIN f_Tags :
          ~Compiles(f_Tags[k].Pattern) /\ HasTag(f_in[1], f_Tags[k].Key))
    => ~f_ret.panic

\* C29 witness: the one rule has a pattern that does not compile, the one
\* measurement has its key, and Apply has panicked with nothing compiled
C29_PanickedOnCompile ==
  /\ plugin = "filtering"
  /\ f_pc = "crashed"
  /\ Len(f_in) = 1
  /\ HasTag(f_in[1], "device")
  /\ Len(f_Tags) = 1 /\ f_Fields = <<>>
  /\ ~Compiles(f_Tags[1].Pattern)
  /\ f_ret.panic
  /\ f_regexCache = {}

\* C30: when a measurement of the batch has all the tag_keys of a field rule
\* and holds a value that is not a string in the rule's track_key field,
\* Apply returns and gives the batch back
C30_NonStringPassesThrough ==
  (plugin = "xmetrictags"
     /\ \E i \in DOMAIN x_in : \E k \in DOMAIN x_cfg.Fields :
          /\ X_HasTags(x_cfg.Fields[k], x_in[i])
          /\ x_cfg.Fields[k].Track_key \in DOMAIN x_in[i].fields
          /\ x_in[i].fields[x_cfg.Fields[k].Track_key].k # "string")
    => x_pc # "crashed" /\ Len(x_out) = Len(x_in)

\* C30 witness: a batch of one measurement with the tags device and if_name
\* and an integer in parent_ae, on which Apply has panicked
C30_PanickedOnInteger ==
  /\ plugin = "xmetrictags"
  /\ x_pc = "crashed"
  /\ Len(x_in) = 1
  /\ X_HasTags(x_cfg.Fields[1], x_in[1])
  /\ "parent_ae" \in DOMAIN x_in[1].fields
  /\ x_in[1].fields["parent_ae"] = IntV(1)
  /\ x_out = <<>>

----------------------------------------------------------------------------
(* Claims on the scheduling loop of netconf_junos                          *)

\* C21: once the context is cancelled the worker issues no further RPC
C21_NoRpcAfterCancel ==
  plugin = "sched" => \A i \in DOMAIN n_after : n_after[i] = 0

\* C21, as the loop does it: the context is tested at the start of a pass
\* only.  A test that finds it cancelled ends the loop, and after the
\* cancellation no request is issued more than once, which is in the pass
\* in progress
C21_NoPassAfterCancel ==
  /\ [](plugin = "sched" => \A i \in DOMAIN n_after : n_after[i] <= 1)
  /\ [][(plugin = "sched" /\ n_cancelled /\ n_pc = "test")
          => n_pc' \in {"test", "done"}]_vars

\* C21 witness: two requests were due in the pass in progress, both were
\* issued after the cancellation, and the loop has ended
C21_TwoIssuedAfterCancel ==
  /\ plugin = "sched"
  /\ n_pc = "done"
  /\ Len(n_r) = 2
  /\ n_after = <<1, 1>>

\* The minimum of the intervals of the requests
N_MinInterval(r) ==
  CHOOSE v \in {r[i].interval : i \in DOMAIN r} :
    \A i \in DOMAIN r : v <= r[i].interval

\* C22: the counter of request i (from 0) starts at i * stagger, where
\* stagger is the minimum interval divided by the number N of requests
\* (rounded down), and a request is issued in the first pass only if its
\* interval is 0
C22_StaggeredWithinWindow ==
  (plugin = "sched" /\ n_pc # "start") =>
    \A i \in DOMAIN n_r :
      LET N == Len(n_r)
          min == N_MinInterval(n_r)
      IN  /\ n_first[i] * N <= (i - 1) * min
          /\ n_first[i] * N >= (i - 1) * min - (i - 1) * (N - 1)
          /\ i \in n_fired => n_r[i].interval = 0

\* C22 witness: two requests of one second each; the counter of the second
\* started above its interval and it was issued in the first pass
C22_SecondIssuedAtOnce ==
  /\ plugin = "sched"
  /\ Len(n_r) = 2
  /\ n_r[1].rpc # n_r[2].rpc
  /\ \A i \in DOMAIN n_r : n_r[i].interval = N_Second \div N_Unit
  /\ n_pc # "start"
  /\ n_first[2] > n_r[2].interval
  /\ 2 \in n_fired

----------------------------------------------------------------------------
(* Claims on the parsing of a reply in netconf_junos                       *)

\* The visited tags of the list of field f, and the tags its measurement is
\* to carry: device and those tags, under their short names
T_VisitedTags(f) ==
  {z \in Range(t_metricToSend[f].tags) :
     z \in DOMAIN t_tagTable /\ t_tagTable[z].visited}

T_CarriesTags(tags, f) ==
  /\ DOMAIN tags = {"device"} \cup {t_tagTable[z].shortName : z \in T_VisitedTags(f)}
  /\ tags["device"] = T_Address
  /\ \A z \in T_VisitedTags(f) :
       tags[t_tagTable[z].shortName] = t_tagTable[z].currentValue

\* C23, the step: at the end tag of a parent, one call of grouper.Add is
\* made for every visited field among its children and none else, with the
\* value of the field and the tags device and the visited tags of its list;
\* after it no child of the parent, field or tag, is visited
T_ParentEndRule ==
  (plugin = "reply" /\ t_last' = "end" /\ T_Join(t_xpath, 1) \in DOMAIN allParents)
    => LET pval == allParents[T_Join(t_xpath, 1)]
           fields == {f \in Range(pval) : f \in DOMAIN t_metricToSend
                                          /\ t_metricToSend[f].visited}
           new == SubSeq(t_grouper', Len(t_grouper) + 1, Len(t_grouper'))
       IN  /\ SubSeq(t_grouper', 1, Len(t_grouper)) = t_grouper
           /\ Len(new) = Cardinality(fields)
           /\ \A f \in fields : \E k \in DOMAIN new :
                /\ new[k].xpath = f
                /\ new[k].measurement = T_Measurement
                /\ new[k].field = t_metricToSend[f].shortName
                /\ new[k].value = t_metricToSend[f].currentValue
                /\ T_CarriesTags(new[k].tags, f)
           /\ \A x \in Range(pval) :
                /\ x \in DOMAIN t_metricToSend => ~t_metricToSend'[x].visited
                /\ x \in DOMAIN t_tagTable => ~t_tagTable'[x].visited

----------------------------------------------------------------------------
(* Claims on the paths of gnmi                                             *)

\* Whether the brackets of s are out of balance from index i on: a "]"
\* with no predicate open, a "[" inside a predicate, or a predicate left
\* open at the end
RECURSIVE P_BadBrackets(_, _, _)
P_BadBrackets(s, i, open) ==
  IF i >= Len(s) THEN open
  ELSE CASE P_Char(s, i) = "[" -> open \/ P_BadBrackets(s, i + 1, TRUE)
         [] P_Char(s, i) = "]" -> ~open \/ P_BadBrackets(s, i + 1, FALSE)
         [] OTHER -> P_BadBrackets(s, i + 1, open)

\* C27: parsePath returns an error and no path for a path that is not
\* empty and does not start with "/", or whose brackets are out of balance
C27_ErrorsReported ==
  (plugin = "path" /\ p_out # <<>>
     /\ \/ Len(p_in) > 0 /\ P_Char(p_in, 0) # "/"
        \/ P_BadBrackets(p_in, 0, FALSE))
    => p_out.err /\ p_out.Elem = <<>>

\* C27 witness: for /a/a], a "]" with no "[", parsePath returned the path
\* /a and no error
C27_TruncatedWithoutError ==
  /\ plugin = "path"
  /\ p_in = "/a/a]"
  /\ p_out # <<>>
  /\ ~p_out.err
  /\ p_out.Elem = <<[Name |-> "a", Key |-> Empty]>>

\* The path parsed put back into a string: "/" and the name of each
\* element, with its keys in the order path w has them
P_Back(Elem, w) ==
  P_Text([k \in DOMAIN w |->
            [Name |-> Elem[k].Name,
             Preds |-> [j \in DOMAIN w[k].Preds |->
                          [key |-> w[k].Preds[j].key,
                           val |-> Elem[k].Key[w[k].Preds[j].key]]]]], 1)

\* Path w with the quotes around its values left out, and without its
\* predicates
P_Bare(w) ==
  [k \in DOMAIN w |->
     [Name |-> w[k].Name,
      Preds |-> [j \in DOMAIN w[k].Preds |->
                   [key |-> w[k].Preds[j].key,
                    val |-> IF w[k].Preds[j].val = "'v'" THEN "v"
                            ELSE w[k].Preds[j].val]]]]

P_Names(w) == [k \in DOMAIN w |-> [Name |-> w[k].Name, Preds |-> <<>>]]

\* Whether the path parsed has the elements and the keys of path w, and
\* handlePath gave the names of w
P_SameShape ==
  /\ ~p_out.err
  /\ Len(p_out.Elem) = Len(p_w)
  /\ \A k \in DOMAIN p_w :
       DOMAIN p_out.Elem[k].Key = {p_w[k].Preds[j].key : j \in DOMAIN p_w[k].Preds}
  /\ p_buf # <<>> => p_buf.pathBuffer = P_Text(P_Names(p_w), 1)

\* C28: a path written from names and predicates is parsed without error,
\* and put back into a string it is the path that was given
C28_RoundTrip ==
  (plugin = "path" /\ p_w # <<>> /\ p_out # <<>>)
    => P_SameShape /\ P_Back(p_out.Elem, p_w) = p_in

\* C28, with the quotes: put back into a string, the path parsed is the
\* path that was given with the quotes around its values left out
C28_RoundTripBare ==
  (plugin = "path" /\ p_w # <<>> /\ p_out # <<>>)
    => P_SameShape /\ P_Back(p_out.Elem, p_w) = P_Text(P_Bare(p_w), 1)

\* C28 witness: /a[k='v'] was parsed and handled, and the key k has the
\* value v
C28_QuotesCut ==
  /\ plugin = "path"
  /\ p_in = "/a[k='v']"
  /\ p_buf # <<>>
  /\ p_buf.pathBuffer = "/a"
  /\ p_out.Elem = <<[Name |-> "a", Key |-> ("k" :> "v")]>>

----------------------------------------------------------------------------
(* Claims on the handling of a response in gnmi                            *)

\* The names of the elements of update i of the reply in hand, those of
\* the prefix first; the string of the first k of them; and the key of its
\* field, which is the string of all, with _x for the member of JSON
U_FullNames(i) ==
  LET names(p) == [k \in DOMAIN p.Elem |-> p.Elem[k].Name]
  IN  (IF u_reply.Prefix = <<>> THEN <<>> ELSE names(u_reply.Prefix[1]))
        \o names(u_reply.Update[i].Path)

RECURSIVE U_String(_, _)
U_String(names, k) ==
  IF k = 0 THEN "" ELSE U_String(names, k - 1) \o "/" \o names[k]

U_Member(i, s) ==
  IF u_reply.Update[i].Val = "json"
  THEN (IF s = "" THEN "x" ELSE s \o "_x")
  ELSE s

\* The prefixes of the path of update i that are registered, by length,
\* and the longest of them as a string, "" for none
U_Registered(i) ==
  {k \in 1..Len(U_FullNames(i)) :
     U_String(U_FullNames(i), k) \in DOMAIN u_cfg.internalAliases}

U_Longest(i) ==
  IF U_Registered(i) = {} THEN ""
  ELSE U_String(U_FullNames(i),
                CHOOSE k \in U_Registered(i) : \A j \in U_Registered(i) : j <= k)

\* C24: the measurement name of an update is the alias of the longest
\* prefix of its path, prefix path first, that has an alias, which is the
\* one of the response prefix if none is longer
C24_LongestAlias ==
  plugin = "update" =>
    \A a \in u_adds :
      U_Registered(a.update) # {} =>
        /\ a.aliasPath = U_Longest(a.update)
        /\ a.name = u_cfg.internalAliases[U_Longest(a.update)]

\* C24 witness: /a and /a/b have an alias, /a/b/c has none; the field of
\* /a/b/c goes under the alias of /a/b, and in the same response the field
\* of the prefix alone under the alias of /a
C24_TwoAliasesInOneResponse ==
  /\ plugin = "update"
  /\ {"/a", "/a/b"} \subseteq DOMAIN u_cfg.internalAliases
  /\ "/a/b/c" \notin DOMAIN u_cfg.internalAliases
  /\ \E a \in u_adds : a.longKey = "/a/b/c" /\ a.name = "alias/a/b"
  /\ \E a \in u_adds : a.longKey = "/a" /\ a.name = "alias/a"

\* The updates of the reply in hand that have a field
U_WithField ==
  IF u_reply = <<>> \/ u_cfg.LongField THEN {}
  ELSE {i \in DOMAIN u_reply.Update : u_reply.Update[i].Val \in {"string", "json"}}

\* The last element of the key of the field of update i
U_LastElement(i) ==
  LET names == U_FullNames(i)
  IN  U_Member(i, IF names = <<>> THEN "" ELSE names[Len(names)])

\* Whether the field of update i was added under field key exp, or, for
\* exp empty, was not added
U_AddedAs(i, exp) ==
  IF exp = "" THEN \A a \in u_adds : a.update # i
  ELSE /\ \E a \in u_adds : a.update = i
       /\ \A a \in u_adds : a.update = i => a.key = exp

\* C25: without long_field, the field key is the key without the alias
\* path if that is a strict prefix of it, and the last element of the key
\* if not, also when there is no alias path; an empty key is dropped
C25_PrefixOrLastElement ==
  plugin = "update" =>
    \A i \in U_WithField :
      LET k == U_Member(i, U_String(U_FullNames(i), Len(U_FullNames(i))))
          ap == U_Longest(i)
      IN  U_AddedAs(i, IF ap # "" /\ Len(ap) < Len(k)
                          /\ SubSeq(k, 1, Len(ap)) = ap
                       THEN SubSeq(k, Len(ap) + 2, Len(k))
                       ELSE U_LastElement(i))

\* C25, as the code has it: with no alias path the key is kept whole
C25_PrefixLastElementOrWhole ==
  plugin = "update" =>
    \A i \in U_WithField :
      LET k == U_Member(i, U_String(U_FullNames(i), Len(U_FullNames(i))))
          ap == U_Longest(i)
      IN  U_AddedAs(i, IF ap = "" THEN k
                       ELSE IF Len(ap) < Len(k)
                       THEN SubSeq(k, Len(ap) + 2, Len(k))
                       ELSE U_LastElement(i))

\* C25 witness: no alias is registered, and the field of /a/b is added
\* under the key /a/b
C25_WholeKeyWithoutAlias ==
  /\ plugin = "update"
  /\ u_cfg.internalAliases = Empty
  /\ ~u_cfg.LongField
  /\ \E a \in u_adds : a.longKey = "/a/b" /\ a.key = "/a/b" /\ a.aliasPath = ""

----------------------------------------------------------------------------
(* Claims on Rate: the source fields and the refresh of the cache          *)

\* C31: Rate.Apply only adds fields: every field of a measurement of the
\* batch is in the returned measurement with the value it came with,
\* whatever the suffix and the fields configured
C31_SourceFieldsUntouched ==
  plugin = "rate" =>
    /\ Len(r_out) = Len(r_in)
    /\ \A i \in DOMAIN r_in : \A key \in DOMAIN r_in[i].fields :
         /\ HasField(r_out[i], key)
         /\ r_out[i].fields[key] = r_in[i].fields[key]

\* C31 witness: with an empty suffix, a sample that came with the integer
\* in_octets leaves with the rate, a float, in in_octets
C31_RateOverSource ==
  /\ plugin = "rate"
  /\ r_cfg.Suffix = ""
  /\ Len(r_in) = 1
  /\ HasField(r_in[1], "in_octets")
  /\ r_in[1].fields["in_octets"].k = "int64"
  /\ r_out[1].fields["in_octets"].k = "float64"
  /\ r_out[1].fields["in_octets"] # r_in[1].fields["in_octets"]


\* Whether the cache entry of the series of measurement i of the last batch
\* holds that measurement's value and timestamp
R_Refreshed(i) ==
  LET id == RateId("in_octets", r_in[i])
  IN  /\ id \in DOMAIN r_cache
      /\ r_cache[id].field_name = "in_octets"
      /\ r_cache[id].tm = r_in[i].tm
      /\ RatEq(r_cache[id].field_value,
               convert(r_in[i].fields["in_octets"]).value)

\* Whether measurement i of the last batch found an entry of its series in
\* the cache: the series had a sample before and no sweep had removed it
R_Matched(i) ==
  LET h == r_hist[RateId("in_octets", r_in[i])]
  IN  h.dt # 0 /\ ~h.lost

\* C32: a sample of a configured numeric field that matches an entry of the
\* cache leaves the entry holding its own value and timestamp, whatever the
\* rate and whatever the time elapsed since the entry was written
C32_MatchRefreshesEntry ==
  plugin = "rate" =>
    \A i \in DOMAIN r_in :
      R_LastSample(i) /\ R_Matched(i) => R_Refreshed(i)

\* C32 witness: with delta_min of one second, a sample that matched an
\* entry written at its own timestamp (no time elapsed) with another value,
\* and the entry still holds that other value
C32_KeptOlderSample ==
  /\ plugin = "rate"
  /\ r_cfg.Delta_min = 1
  /\ Len(r_in) = 1
  /\ R_LastSample(1)
  /\ R_Matched(1)
  /\ r_cache[RateId("in_octets", r_in[1])].tm = r_in[1].tm
  /\ ~RatEq(r_cache[RateId("in_octets", r_in[1])].field_value,
            convert(r_in[1].fields["in_octets"]).value)

----------------------------------------------------------------------------
(* Claims on Filtering: the removal and the flag                           *)

\* C34: the removal of flagged measurements stays inside the batch: for
\* every batch and every subset of flagged measurements (rules of patterns
\* that compile) Apply indexes below the current length of the batch and
\* returns, with a batch no longer than the one it was given
C34_RemovalInRange ==
  (plugin = "filtering" /\ f_pc # "idle" /\ F_AllCompile) =>
    /\ ~f_ret.panic
    /\ Len(f_ret.out) <= Len(f_in)

\* C34 witness: a batch of two measurements of which the first is flagged
\* and the last is not, and Apply has panicked on an index out of range
C34_FlaggedBeforeLast ==
  /\ plugin = "filtering"
  /\ f_pc = "crashed"
  /\ F_AllCompile
  /\ Len(f_in) = 2
  /\ F_Flagged(f_in[1])
  /\ ~F_Flagged(f_in[2])
  /\ f_ret.panic


\* metric_to_drop of measurement m after the first k rules, the tag rules
\* counted first and the field rules after them (k = 0: before any rule)
F_After(m, k) ==
  LET st0 == [panic |-> FALSE, drop |-> FALSE, cache |-> {}]
      nt == Len(f_Tags)
  IN  IF k <= nt
      THEN TagRules(st0, SubSeq(f_Tags, 1, k), 1, m)
      ELSE FieldRules(TagRules(st0, f_Tags, 1, m),
                      SubSeq(f_Fields, 1, k - nt), 1, m)

\* Rule k has nothing to look at in m: its tag is absent, or its field is
\* absent or holds no string
F_NothingToLookAt(m, k) ==
  IF k <= Len(f_Tags)
  THEN ~HasTag(m, f_Tags[k].Key)
  ELSE LET rule == f_Fields[k - Len(f_Tags)]
       IN  ~HasField(m, rule.Key) \/ m.fields[rule.Key].k # "string"

\* C35: within one measurement the flag only rises: a measurement flagged
\* after k - 1 rules is flagged after k rules, whatever rule k is, and a
\* rule whose key is absent from the measurement or whose field holds no
\* string leaves the flag as it found it
C35_FlagMonotone ==
  (plugin = "filtering" /\ f_pc # "idle") =>
    \A i \in DOMAIN f_in : \A k \in 1..(Len(f_Tags) + Len(f_Fields)) :
      /\ F_After(f_in[i], k - 1).drop => F_After(f_in[i], k).drop
      /\ F_NothingToLookAt(f_in[i], k)
           => F_After(f_in[i], k).drop = F_After(f_in[i], k - 1).drop

\* C35 witness: a measurement flagged by the tag rule {device, ^r1$, drop}
\* and then met by the field rule {descr, ^r1$, accept}, which matches its
\* descr: it is still flagged, and Apply has returned without it
C35_AcceptAfterDrop ==
  /\ plugin = "filtering"
  /\ f_pc = "once"
  /\ f_Tags = <<[Key |-> "device", Pattern |-> "^r1$", Action |-> "drop"]>>
  /\ f_Fields = <<[Key |-> "descr", Pattern |-> "^r1$", Action |-> "accept"]>>
  /\ Len(f_in) = 1
  /\ f_in[1].tags = ("device" :> "r1")
  /\ f_in[1].fields = ("descr" :> StrV("r1"))
  /\ F_After(f_in[1], 1).drop
  /\ F_After(f_in[1], 2).drop
  /\ f_ret.out = <<>>

----------------------------------------------------------------------------
(* Claims on Monitoring: the probes of one field                           *)

\* Whether the probe of type current holds of the field it names in the
\* measurement i of the last call: the field is a number, not below
\* min_value, and on the probe's side of the threshold
M_CurrentHolds(probe, i) ==
  /\ probe.ProbeType = "current"
  /\ HasField(m_in[i], probe.Field)
  /\ convert(m_in[i].fields[probe.Field]).ok
  /\ LET value == convert(m_in[i].fields[probe.Field]).value
     IN  /\ RatLeq(probe.MinValue, value)
         /\ CASE probe.Operator = "lt" -> RatLess(value, probe.Threshold)
              [] probe.Operator = "gt" -> RatLess(probe.Threshold, value)
              [] probe.Operator = "eq" -> RatEq(value, probe.Threshold)

\* C36: every configured probe is evaluated: for each probe of type current
\* of the configuration, two probes on one field included, and each
\* measurement on which its condition holds, the call emits an alarm for
\* that measurement whose tag tag_name is the probe's alarm_name (probes
\* that copy a tag named tag_name over it, the case of C8, left aside)
C36_EveryProbeAlarms ==
  (plugin = "monitoring" /\ m_initialized) =>
    \A j \in DOMAIN m_cfg.Probe : \A i \in DOMAIN m_in :
      (/\ M_CurrentHolds(m_cfg.Probe[j], i)
       /\ ~(m_cfg.Probe[j].CopyTag /\ m_cfg.TagName \in DOMAIN m_in[i].tags))
        => \E k \in DOMAIN m_src :
             /\ m_src[k].i = i
             /\ m_src[k].key = m_cfg.Probe[j].Field
             /\ M_AlarmAt(k).tm = m_in[i].tm
             /\ m_cfg.TagName \in DOMAIN M_AlarmAt(k).tags
             /\ M_AlarmAt(k).tags[m_cfg.TagName] = m_cfg.Probe[j].AlarmName

\* C36 witness: the probes CPU_HIGH (current, gt 0) and CPU_LOW (current,
\* lt 0) on cpu, a sample cpu = 1, on which CPU_HIGH holds, and no alarm
C36_FirstProbeShadowed ==
  /\ plugin = "monitoring"
  /\ m_initialized
  /\ Len(m_cfg.Probe) = 2
  /\ m_cfg.Probe[1].AlarmName = "CPU_HIGH"
  /\ m_cfg.Probe[2].AlarmName = "CPU_LOW"
  /\ m_cfg.Probe[1].Field = m_cfg.Probe[2].Field
  /\ Len(m_in) = 1
  /\ m_in[1].fields = ("cpu" :> IntV(1))
  /\ M_CurrentHolds(m_cfg.Probe[1], 1)
  /\ m_fields_map["cpu"].AlarmName = "CPU_LOW"
  /\ Len(m_out) = 1

----------------------------------------------------------------------------
(* Claims on Xmetrictags: the age of the entry a tag is taken from         *)

\* C37: no tag comes from an expired entry: a measurement without the
\* track_key that is given tag_name from the cache gets it from an entry
\* whose stored expiry the current time has not passed, whether a sweep has
\* run since the expiry or not
C37_NoTagFromExpired ==
  (plugin = "xmetrictags" /\ x_pc = "running") =>
    \A n \in DOMAIN x_seen :
      x_seen[n].hit =>
        /\ x_seen[n].last # <<>>
        /\ now <= x_seen[n].last[1].tm

\* C37 witness: a call that ran no sweep gave lag_id to a measurement
\* without parent_ae from an entry whose expiry had passed
C37_TaggedFromExpired ==
  /\ plugin = "xmetrictags"
  /\ x_pc = "running"
  /\ x_last_cleared < now
  /\ \E n \in DOMAIN x_seen :
       /\ x_seen[n].hit
       /\ x_seen[n].tag_name = "lag_id"
       /\ x_seen[n].last # <<>>
       /\ x_seen[n].last[1].tm < now
       /\ "parent_ae" \notin DOMAIN x_in[x_seen[n].i].fields
       /\ x_out[x_seen[n].i].tags["lag_id"] = x_seen[n].last[1].track_key_value

----------------------------------------------------------------------------
(* Claims on two instances of Enrichment                                   *)

\* What the last Apply would have returned for measurement i had it used
\* the mapping of the file of its own instance
EP_FromOwnFile(i) == E_Metric(ep_cfg, E_Parse(EP_Files[ep_who]), ep_in[i])

\* C39: two instances configured with different files are isolated: every
\* tag an Apply adds to a measurement is a tag the mapping of the file of
\* its own instance gives that measurement, whatever the order of the calls
\* and refreshes of the two instances
C39_TagsFromOwnFile ==
  (plugin = "pair" /\ ep_who # 0) =>
    /\ Len(ep_out) = Len(ep_in)
    /\ \A i \in DOMAIN ep_in :
         \A tag \in DOMAIN ep_out[i].tags \ DOMAIN ep_in[i].tags :
           /\ tag \in DOMAIN EP_FromOwnFile(i).tags
           /\ ep_out[i].tags[tag] = EP_FromOwnFile(i).tags[tag]

\* C39 witness: instance 2, whose file holds B (site s2 for r2), has
\* loaded its file, and its last Apply gave a measurement of r2 the site
\* s1 of the file of instance 1
C39_TaggedFromOtherFile ==
  /\ plugin = "pair"
  /\ ep_who = 2
  /\ ep_inst[2].initialized
  /\ ~ep_inst[2].FileError
  /\ ep_inst[2].CurrentHash = E_MD5("B")
  /\ ep_inst[1].CurrentHash = E_MD5("A")
  /\ Len(ep_in) = 1
  /\ ep_in[1].tags = ("device" :> "r2")
  /\ ep_out[1].tags = ("device" :> "r2") @@ ("site" :> "s1")

----------------------------------------------------------------------------
(* Claims on the scheduling loop of netconf_junos: every request is served *)

\* C33: every request of the session has a counter of its own: the issue of
\* the RPC of a request leaves the counter every other request is tested
\* against as it was, and every request, two requests with the same rpc
\* string included, is issued again and again as long as the context is not
\* cancelled
C33_EveryRequestIssued ==
  /\ [][(plugin = "sched" /\ n_pc = "pass" /\ n_pc' = "rpc")
          => \A j \in DOMAIN n_r \ {n_req} :
               n_counters'[n_r[j].rpc] = n_counters[n_r[j].rpc]]_vars
  /\ \A i \in 1..MaxSubs :
       []<>((plugin = "sched" /\ i \in DOMAIN n_r)
              => (n_cancelled \/ (n_pc = "rpc" /\ n_req = i)))

\* C33 witness: two requests with the same rpc string and an interval of
\* one second; in the third pass or later, context not cancelled, the loop
\* comes to the second request, which was never due in the first pass, and
\* finds the counter at zero: the first request has just been issued
C33_SecondFindsCounterReset ==
  /\ plugin = "sched"
  /\ Len(n_r) = 2
  /\ n_r[1].rpc = n_r[2].rpc
  /\ \A i \in DOMAIN n_r : n_r[i].interval = N_Second \div N_Unit
  /\ ~n_cancelled
  /\ n_passes = MaxPasses
  /\ n_pc = "pass"
  /\ n_req = 2
  /\ n_counters[n_r[2].rpc] = 0

----------------------------------------------------------------------------
(* Claims on the replies of netconf_junos: every collected field is sent   *)

\* The fields visited in the reply being parsed: the row of the last visit
\* is kept per field
T_Collected == {f \in DOMAIN t_metricToSend : t_metricToSend[f].row # 0}

\* C38: every collected field is sent: when the parsing of a reply ends,
\* each configured field visited in it, with a key in its path or without,
\* has been added to the grouper at the row of its last visit; and when the
\* next reply starts to be parsed no field and no tag is marked visited
C38_CollectedIsSent ==
  /\ (plugin = "reply" /\ t_last = "eof") =>
       \A f \in T_Collected :
         \E k \in DOMAIN t_grouper :
           /\ t_grouper[k].xpath = f
           /\ t_grouper[k].row = t_metricToSend[f].row
  /\ (plugin = "reply" /\ t_last = "") =>
       /\ \A f \in DOMAIN t_metricToSend : ~t_metricToSend[f].visited
       /\ \A z \in DOMAIN t_tagTable : ~t_tagTable[z].visited

\* C38 witness: the reply <a><uptime>7</uptime></a> has been parsed to its
\* end: /a/uptime was visited and holds 7, and the grouper is empty
C38_KeylessFieldNotSent ==
  /\ plugin = "reply"
  /\ t_last = "eof"
  /\ t_row = 0
  /\ t_metricToSend["/a/uptime"].visited
  /\ t_metricToSend["/a/uptime"].row # 0
  /\ t_metricToSend["/a/uptime"].currentValue = IntV(7)
  /\ t_grouper = <<>>

----------------------------------------------------------------------------
(* Claims on the measurement name of an update without alias (gnmi.go)     *)

\* The prefix path string of the reply in hand
U_PrefixString ==
  IF u_reply.Prefix = <<>> THEN ""
  ELSE handlePath(u_cfg.internalAliases, u_cfg.LongTag, u_reply.Prefix[1],
                  TRUE, Empty, "").pathBuffer

\* C40: the fields of every update of a response whose alias path has no
\* registered alias, the first update of the response and the updates with
\* an empty alias path included, are added under the prefix path string as
\* measurement name, never under an empty name or under the name resolved
\* for an update before it
C40_UnaliasedNamedByPrefix ==
  (plugin = "update" /\ u_reply # <<>>) =>
    \A a \in u_adds :
      a.aliasPath \notin DOMAIN u_cfg.internalAliases =>
        a.name = U_PrefixString

\* C40 witness: no alias is registered and the response has the prefix /a;
\* the field of its first update is added under the empty name
C40_FirstUpdateUnnamed ==
  /\ plugin = "update"
  /\ u_reply # <<>>
  /\ u_cfg.internalAliases = Empty
  /\ u_reply.Prefix # <<>>
  /\ U_PrefixString = "/a"
  /\ \E a \in u_adds : a.update = 1 /\ a.aliasPath = "" /\ a.name = ""

=============================================================================
